---- MODULE Spec2Model ----
(***************************************************************************)
(* HouseHeatingCurve.py: the sample aggregator (Domoticz sensor lists or a *)
(* CSV file -> four aligned sample lists), the energy normaliser and the   *)
(* linear heat-loss fit, as state machines over the script's globals.      *)
(*                                                                         *)
(* Numbers.  Python floats are modelled as exact rationals [num, den] in   *)
(* lowest terms (den > 0); den = 0 encodes the IEEE specials inf (num 1),  *)
(* -inf (num -1) and nan (num 0).  Float rounding error is below the       *)
(* model's resolution.                                                     *)
(* Dates.  A Domoticz date string "YYYY-MM-DD" is the triple of its three  *)
(* '-'-separated integer fields.                                           *)
(***************************************************************************)
EXTENDS Integers, Sequences, FiniteSets, TLC

VARIABLES
    PythonMajor,                 \* interpreter that runs the script (imports at 60-69)
    UseGasDataForHeatingEnergyEstimation,
    EstimateAdditionalInternalAndExternalEnergy,
    UseCSVFileAsDataSource,
    Domoticz,                    \* sensor -> the 'result' list its URL returns
    CSVRows,                     \* the rows of CSVFile
    Unreachable,                 \* sensors whose URL answers with an HTTPError or URLError
    pc,                          \* next statement of the main program
    error,                       \* the exception that ended the run, or "none"
    OutdoorData, HeatingEnergyData, ElectricEnergyData, IndoorData,
    Measurements,                \* OrderedDict: sequence of [d, ValueList] in insertion order
    IndoorTempSamples, OutdoorTempSamples, HeatingPowerSamples, ElectricitySamples,
    IndoorRows, OutdoorRows,     \* history: the day (date or CSV row number) behind each sample
    HeatingPowerPerxxhGain, HeatingPowerPerxxhOffset, Correlation,
    HeatingLimit,
    OutsideTemperatureOfInterest,    \* configured at line 108, lowered at line 636
    DaysAlternativePower, HeatingPowerTemperatureOffInterest,
    AlternativePower, AlternativeEnergy, AlternativeEnergyCost,
    PowerPointAtIndoorTemperature, AverageInternalPower, AverageExternalPower,
    TotalEnergy,                     \* PlotEnergyDistribution's yearly total
    EnergyTemperatureList,           \* the degree-day table: the list of line 160
    DaysPerYearAverageTemperature,   \* and the list of line 162
    DaysCalls                        \* history: calls of CalculateDaysPerYearBelowTemperature

vars == <<PythonMajor, UseGasDataForHeatingEnergyEstimation,
          EstimateAdditionalInternalAndExternalEnergy, UseCSVFileAsDataSource,
          Domoticz, CSVRows, Unreachable, pc, error,
          OutdoorData, HeatingEnergyData, ElectricEnergyData, IndoorData,
          Measurements,
          IndoorTempSamples, OutdoorTempSamples, HeatingPowerSamples, ElectricitySamples,
          IndoorRows, OutdoorRows,
          HeatingPowerPerxxhGain, HeatingPowerPerxxhOffset, Correlation,
          HeatingLimit,
          OutsideTemperatureOfInterest,
          DaysAlternativePower, HeatingPowerTemperatureOffInterest,
          AlternativePower, AlternativeEnergy, AlternativeEnergyCost,
          PowerPointAtIndoorTemperature, AverageInternalPower, AverageExternalPower,
          TotalEnergy, EnergyTemperatureList, DaysPerYearAverageTemperature, DaysCalls>>

configVars == <<PythonMajor, UseGasDataForHeatingEnergyEstimation,
                EstimateAdditionalInternalAndExternalEnergy, UseCSVFileAsDataSource>>
inputVars == <<Domoticz, CSVRows, Unreachable>>
fetchVars == <<OutdoorData, HeatingEnergyData, ElectricEnergyData, IndoorData>>
sampleVars == <<IndoorTempSamples, OutdoorTempSamples, HeatingPowerSamples,
                ElectricitySamples, IndoorRows, OutdoorRows>>
fitVars == <<HeatingPowerPerxxhGain, HeatingPowerPerxxhOffset, Correlation, HeatingLimit>>
alternativeVars == <<DaysAlternativePower, HeatingPowerTemperatureOffInterest,
                     AlternativePower, AlternativeEnergy, AlternativeEnergyCost>>
decompositionVars == <<PowerPointAtIndoorTemperature, AverageInternalPower,
                       AverageExternalPower>>
tableVars == <<EnergyTemperatureList, DaysPerYearAverageTemperature>>
resultVars == <<OutsideTemperatureOfInterest, alternativeVars, decompositionVars,
                TotalEnergy, DaysCalls>>

----------------------------------------------------------------------------
(* Bounds of the model *)

\* observations the Domoticz server holds over all sensors (aggregation runs)
MaxObs == 3
\* items the server holds over all sensors in the filtering runs (any date, malformed items)
MaxRaw == 2
\* rows of the CSV file
MaxRows == 2
\* samples handed to the fit
MaxSamples == 4
\* sensors whose URL fails in one run
MaxFailing == 1
\* observations the server holds over all sensors in the runs with failing URLs
MaxHeld == 2

----------------------------------------------------------------------------
(* Exact rational arithmetic standing for Python float arithmetic *)

Abs(i) == IF i < 0 THEN -i ELSE i

Sign(i) == IF i < 0 THEN -1 ELSE IF i > 0 THEN 1 ELSE 0

RECURSIVE GCD(_, _)
GCD(a, b) == IF b = 0 THEN a ELSE GCD(b, a % b)

LCM(a, b) == (a \div GCD(a, b)) * b

\* n/d in lowest terms; d = 0 gives inf, -inf or nan
Rat(n, d) ==
    IF d = 0 THEN [num |-> Sign(n), den |-> 0]
    ELSE LET g == GCD(Abs(n), Abs(d))
         IN  [num |-> Sign(d) * (n \div g), den |-> Abs(d) \div g]

\* float(i) of an integer text or JSON number i
FloatOf(i) == [num |-> i, den |-> 1]

Zero == FloatOf(0)

IsFinite(a) == a.den # 0

Neg(a) == [num |-> -a.num, den |-> a.den]

NaN == [num |-> 0, den |-> 0]

\* inf + -inf and anything + nan are nan; inf + x is inf
Add(a, b) ==
    IF a.den = 0 \/ b.den = 0
    THEN IF a.den = 0 /\ b.den = 0
         THEN (IF a.num = b.num THEN a ELSE NaN)
         ELSE IF a.den = 0 THEN [num |-> a.num, den |-> 0] ELSE [num |-> b.num, den |-> 0]
    ELSE LET l == LCM(a.den, b.den)
         IN  Rat(a.num * (l \div a.den) + b.num * (l \div b.den), l)

Sub(a, b) == Add(a, Neg(b))

Mul(a, b) ==
    LET g1 == GCD(Abs(a.num), b.den)
        g2 == GCD(Abs(b.num), a.den)
    IN  IF a.den = 0 \/ b.den = 0 THEN [num |-> Sign(a.num) * Sign(b.num), den |-> 0]
        ELSE IF a.num = 0 \/ b.num = 0 THEN Zero
        ELSE Rat((a.num \div g1) * (b.num \div g2), (a.den \div g2) * (b.den \div g1))

\* float division; a zero divisor gives inf, -inf or nan as numpy's float64 does
Div(a, b) ==
    IF a.den = 0 /\ b.den = 0 THEN NaN
    ELSE IF b.den = 0 THEN Zero
    ELSE IF b.num = 0 THEN Rat(a.num, 0)
    ELSE Mul(a, [num |-> Sign(b.num) * b.den, den |-> Abs(b.num)])

\* a comparison with nan is false
IsNaN(a) == a.den = 0 /\ a.num = 0

Less(a, b) ==
    /\ ~IsNaN(a) /\ ~IsNaN(b)
    /\ IF a.den = 0 \/ b.den = 0
       THEN (IF a.den = 0 THEN a.num ELSE 0) < (IF b.den = 0 THEN b.num ELSE 0)
       ELSE Sub(a, b).num < 0

LessEq(a, b) ==
    /\ ~IsNaN(a) /\ ~IsNaN(b)
    /\ IF a.den = 0 \/ b.den = 0
       THEN \/ (IF a.den = 0 THEN a.num ELSE 0) < (IF b.den = 0 THEN b.num ELSE 0)
            \/ (a.den = 0 /\ b.den = 0 /\ a.num = b.num)
       ELSE Sub(a, b).num <= 0

RECURSIVE Sum(_)
Sum(s) == IF s = <<>> THEN Zero ELSE Add(Head(s), Sum(Tail(s)))

----------------------------------------------------------------------------
(* Configuration (lines 85-129) *)

DateStartAnalyses == <<2019, 9, 12>>

DateEndAnalyses == <<2019, 12, 23>>

\* float(31.65/3.6)
EnergyPerCubicMeterGas == Rat(3165, 360)

\* float(8/30): the quotient of two int literals is floor division under
\* Python 2 and true division under Python 3
CubicMetersGasADayForWarmWaterAndCooking ==
    IF PythonMajor = 2 THEN FloatOf(8 \div 30) ELSE Rat(8, 30)

HoursForHeatingADay == 22

\* float(14.0*2.0*0.12)
HeatFromWarmBodies == Rat(336, 100)

\* float(0.227)
CostPerkWh == Rat(227, 1000)

\* the value OutsideTemperatureOfInterest is given at line 108
ConfiguredTemperatureOfInterest == FloatOf(-7)

\* TotalUsageCorrectionFactor = 0.987755312791, as its first and last six decimals
TotalUsageCorrectionFactorHigh == 987755

TotalUsageCorrectionFactorLow == 312791

----------------------------------------------------------------------------
(* Dates and the analysis window *)

\* datetime.date comparison: by year, then month, then day
DateLessEq(a, b) ==
    \/ a[1] < b[1]
    \/ a[1] = b[1] /\ a[2] < b[2]
    \/ a[1] = b[1] /\ a[2] = b[2] /\ a[3] <= b[3]

DateLess(a, b) == DateLessEq(a, b) /\ a # b

\* the window with its last day left out
DataInAnalysesWindowEndExclusive(DateString) ==
    LET CompareDate == <<DateString[1], DateString[2], DateString[3]>>
    IN  DateLessEq(DateStartAnalyses, CompareDate) /\ DateLess(CompareDate, DateEndAnalyses)

DataInAnalysesWindow(DateString) ==
    LET CompareDate == <<DateString[1], DateString[2], DateString[3]>>
    IN  DateLessEq(DateStartAnalyses, CompareDate) /\ DateLessEq(CompareDate, DateEndAnalyses)

----------------------------------------------------------------------------
(* The Get* functions: the filter each applies to the 'result' list of its URL *)

Sensors == {"OutDoorTemperature", "InDoorTemperature", "HeatingEnergy", "Gas", "TotalElectric"}

\* a non-empty string literal is true in a Python condition
Truthy(string) == string # ""

GetOutdoorTemp(TemperatureList) ==
    SelectSeq(TemperatureList, LAMBDA item:
        "d" \in DOMAIN item /\ DataInAnalysesWindow(item.d) /\ "ta" \in DOMAIN item)

GetIndoorTemp(TemperatureList) ==
    SelectSeq(TemperatureList, LAMBDA item:
        "d" \in DOMAIN item /\ DataInAnalysesWindow(item.d) /\ "ta" \in DOMAIN item)

\* `'v_max' and 'v_min' in item` parses as 'v_max' and ('v_min' in item)
GetHeatingEnergy(HeatingEnergyList) ==
    SelectSeq(HeatingEnergyList, LAMBDA item:
        "d" \in DOMAIN item /\ DataInAnalysesWindow(item.d)
            /\ (Truthy("v_max") /\ "v_min" \in DOMAIN item))

GetTotalUsedElectricEnergy(EnergyList) ==
    SelectSeq(EnergyList, LAMBDA item:
        "d" \in DOMAIN item /\ DataInAnalysesWindow(item.d) /\ "v" \in DOMAIN item)

GetHeatingEnergyFromGasUsage(HeatingEnergyList) ==
    SelectSeq(HeatingEnergyList, LAMBDA item:
        "d" \in DOMAIN item /\ DataInAnalysesWindow(item.d) /\ "v" \in DOMAIN item)

\* a fetch that hands on what the server holds whether or not the URL answers
ReturnListDespiteError(s, kept) == kept

\* the try/except around the request and the filter: urlopen raises before any item
\* is appended, the except clause prints, and the empty ReturnList is returned
ReturnList(s, kept) == IF s \in Unreachable THEN <<>> ELSE kept

\* round(TotalUsageCorrectionFactor*float(v), 3) for an integer reading v >= 0, in
\* thousandths: 1000*factor*v = (High*v)/10^3 + (Low*v)/10^9, rounded to nearest
\* (no tie occurs: Low is coprime to 10)
CorrectedUsageThousandths(v) ==
    LET A == TotalUsageCorrectionFactorHigh * v
        R == (A % 1000) * 1000000 + TotalUsageCorrectionFactorLow * v
    IN  (A \div 1000) + (R \div 1000000000)
            + (IF (R % 1000000000) > 500000000 THEN 1 ELSE 0)

CorrectedUsage(v) == Rat(CorrectedUsageThousandths(v), 1000)

ProcessElectricEnergy(RawList) ==
    [i \in 1..Len(RawList) |->
        LET entry == RawList[i]
        IN  IF "d" \in DOMAIN entry /\ "v" \in DOMAIN entry
            THEN [d |-> entry.d, v |-> CorrectedUsage(entry.v)]
            ELSE entry]

ConvertGasTokWh(Gas) ==
    Mul(Sub(Gas, CubicMetersGasADayForWarmWaterAndCooking), EnergyPerCubicMeterGas)

\* float.__str__(): Python 3 writes the shortest text that reads back as the same
\* float, Python 2 writes the float to 12 significant digits
FloatStr(x) == [text |-> x, digits |-> IF PythonMajor = 2 THEN 12 ELSE 17]

\* a decimal of at most 12 significant digits (the numbers met here are either such
\* short decimals or have no finite decimal expansion)
ExactInTwelveDigits(x) ==
    x.den # 0 /\ 1000000 % x.den = 0 /\ Abs(x.num) < 1000000

\* float(text): the number written; a text of 12 digits that cut the number short
\* gives the 12-digit decimal next to it, kept as the number with the mark `rounded`
FloatOfText(t) ==
    IF t.digits = 17 \/ ExactInTwelveDigits(t.text) THEN t.text
    ELSE [num |-> t.text.num, den |-> t.text.den, rounded |-> t.digits]

\* a / b for a float a that may carry the mark, which the quotient keeps
DivKeepingMark(a, b) ==
    LET q == Div(a, b)
    IN  IF "rounded" \in DOMAIN a
        THEN [num |-> q.num, den |-> q.den, rounded |-> a.rounded]
        ELSE q

\* float(Value['Energy'])/HoursForHeatingADay
HeatingPowerOfText(t) == DivKeepingMark(FloatOfText(t), FloatOf(HoursForHeatingADay))

----------------------------------------------------------------------------
(* CreateDictionaryOfData: the OrderedDict is the sequence of its (date,        *)
(* ValueList) entries in insertion order                                        *)

KeyIndex(OutputDict, d) ==
    IF \E i \in 1..Len(OutputDict) : OutputDict[i].d = d
    THEN CHOOSE i \in 1..Len(OutputDict) : OutputDict[i].d = d
    ELSE 0

\* a merge that opens a new entry for every observation
DictAddAlwaysNew(OutputDict, d, ValueDict) ==
    Append(OutputDict, [d |-> d, ValueList |-> <<ValueDict>>])

\* if item['d'] in OutputDict: append, else: OutputDict[item['d']] = [ValueDict]
DictAdd(OutputDict, d, ValueDict) ==
    LET i == KeyIndex(OutputDict, d)
    IN  IF i # 0
        THEN [OutputDict EXCEPT ![i].ValueList = Append(@, ValueDict)]
        ELSE Append(OutputDict, [d |-> d, ValueList |-> <<ValueDict>>])

\* one `for item in ...Data` loop over the (date, ValueDict) pairs it builds
RECURSIVE MergeLoop(_, _)
MergeLoop(OutputDict, pairs) ==
    IF pairs = <<>> THEN OutputDict
    ELSE MergeLoop(DictAdd(OutputDict, Head(pairs).d, Head(pairs).ValueDict), Tail(pairs))

\* float(item['v_max'])-float(item['v_min'])
DirectEnergy(item) == Sub(FloatOf(item.v_max), FloatOf(item.v_min))

CreateDictionaryOfData(indoor, outdoor, heating, electric) ==
    LET indoorPairs == [i \in 1..Len(indoor) |->
            [d |-> indoor[i].d, ValueDict |-> [IndoorTemperature |-> indoor[i].ta]]]
        electricPairs == [i \in 1..Len(electric) |->
            [d |-> electric[i].d, ValueDict |-> [ElectricEnergy |-> electric[i].v]]]
        outdoorPairs == [i \in 1..Len(outdoor) |->
            [d |-> outdoor[i].d, ValueDict |-> [OutdoorTemperature |-> outdoor[i].ta]]]
        gasPairs == [i \in 1..Len(heating) |->
            [d |-> heating[i].d,
             ValueDict |-> [Energy |-> FloatStr(ConvertGasTokWh(FloatOf(heating[i].v)))]]]
        directPairs == [i \in 1..Len(heating) |->
            [d |-> heating[i].d,
             ValueDict |-> [Energy |-> FloatStr(DirectEnergy(heating[i]))]]]
        d1 == IF EstimateAdditionalInternalAndExternalEnergy
              THEN MergeLoop(MergeLoop(<<>>, indoorPairs), electricPairs)
              ELSE <<>>
        d2 == MergeLoop(d1, outdoorPairs)
    IN  IF UseGasDataForHeatingEnergyEstimation
        THEN MergeLoop(d2, gasPairs)
        ELSE MergeLoop(d2, directPairs)

----------------------------------------------------------------------------
(* GetDataListsFromDictionary: the walk over Measurements.items() *)

\* the `for Value in ValueList` loop on the Previous* values
RECURSIVE ApplyValues(_, _)
ApplyValues(prev, ValueList) ==
    IF ValueList = <<>> THEN prev
    ELSE LET Value == Head(ValueList)
             p1 == IF "Energy" \in DOMAIN Value
                   THEN [prev EXCEPT !.HeatingPower = HeatingPowerOfText(Value.Energy)]
                   ELSE prev
             p2 == IF "OutdoorTemperature" \in DOMAIN Value
                   THEN [p1 EXCEPT !.OutdoorTemperature = FloatOf(Value.OutdoorTemperature)]
                   ELSE p1
             p3 == IF "ElectricEnergy" \in DOMAIN Value
                   THEN [p2 EXCEPT !.ElectricEnergy = Value.ElectricEnergy]
                   ELSE p2
             p4 == IF "IndoorTemperature" \in DOMAIN Value
                   THEN [p3 EXCEPT !.IndoorTemperature = FloatOf(Value.IndoorTemperature)]
                   ELSE p3
         IN  ApplyValues(p4, Tail(ValueList))

RECURSIVE WalkItems(_, _, _)
WalkItems(items, prev, out) ==
    IF items = <<>> THEN out
    ELSE LET now == ApplyValues(prev, Head(items).ValueList)
         IN  WalkItems(Tail(items), now,
                [ElectricEnergySamples |-> Append(out.ElectricEnergySamples, now.ElectricEnergy),
                 HeatingPowerSamples |-> Append(out.HeatingPowerSamples, now.HeatingPower),
                 IndoorTempSamples |-> Append(out.IndoorTempSamples, now.IndoorTemperature),
                 OutdoorTempSamples |-> Append(out.OutdoorTempSamples, now.OutdoorTemperature)])

\* a walk whose Previous values start at 1.0
GetDataListsFromDictionaryStartingAtOne(measurements) ==
    WalkItems(measurements,
              [IndoorTemperature |-> FloatOf(1), OutdoorTemperature |-> FloatOf(1),
               HeatingPower |-> FloatOf(1), ElectricEnergy |-> FloatOf(1)],
              [ElectricEnergySamples |-> <<>>, HeatingPowerSamples |-> <<>>,
               IndoorTempSamples |-> <<>>, OutdoorTempSamples |-> <<>>])

GetDataListsFromDictionary(measurements) ==
    WalkItems(measurements,
              [IndoorTemperature |-> Zero, OutdoorTemperature |-> Zero,
               HeatingPower |-> Zero, ElectricEnergy |-> Zero],
              [ElectricEnergySamples |-> <<>>, HeatingPowerSamples |-> <<>>,
               IndoorTempSamples |-> <<>>, OutdoorTempSamples |-> <<>>])

\* the dates Measurements.items() yields, in the order it yields them
WalkedDates(measurements) == [i \in 1..Len(measurements) |-> measurements[i].d]

----------------------------------------------------------------------------
(* GetDataListsFromCSVFile: a row is the sequence of its cells, a cell is <<>>  *)
(* when blank and <<v>> when it holds the number v                              *)

\* row[k].strip() is true for a non-blank cell
Strip(cell) == cell # <<>>

\* the row's HeatingPower
CSVHeatingPower(cell) ==
    IF UseGasDataForHeatingEnergyEstimation
    THEN Div(ConvertGasTokWh(FloatOf(cell[1])), FloatOf(HoursForHeatingADay))
    ELSE Div(FloatOf(cell[1]), FloatOf(HoursForHeatingADay))

\* row[2] of a row with fewer than three cells raises IndexError
CSVIndexError(rows) ==
    EstimateAdditionalInternalAndExternalEnergy /\ \E i \in 1..Len(rows) : Len(rows[i]) < 4

RECURSIVE ReadRows(_, _, _)
ReadRows(rows, i, out) ==
    IF i > Len(rows) THEN out
    ELSE LET row == rows[i]
             o1 == IF Strip(row[1]) /\ Strip(row[2])
                   THEN [out EXCEPT
                            !.OutdoorTempSamples = Append(@, FloatOf(row[1][1])),
                            !.HeatingPowerSamples = Append(@, CSVHeatingPower(row[2])),
                            !.OutdoorRows = Append(@, <<i>>)]
                   ELSE out
             o2 == IF EstimateAdditionalInternalAndExternalEnergy
                      /\ Strip(row[3]) /\ Strip(row[4])
                   THEN [o1 EXCEPT
                            !.IndoorTempSamples = Append(@, FloatOf(row[3][1])),
                            !.ElectricitySamples = Append(@, CorrectedUsage(row[4][1])),
                            !.IndoorRows = Append(@, <<i>>)]
                   ELSE o1
         IN  ReadRows(rows, i + 1, o2)

GetDataListsFromCSVFile(rows) ==
    ReadRows(rows, 1,
             [HeatingPowerSamples |-> <<>>, OutdoorTempSamples |-> <<>>,
              IndoorTempSamples |-> <<>>, ElectricitySamples |-> <<>>,
              OutdoorRows |-> <<>>, IndoorRows |-> <<>>])

----------------------------------------------------------------------------
(* FitHeatingAndTemperatureData, lines 443-456: scipy's curve_fit of the     *)
(* two-parameter line is the least-squares line, computed here exactly       *)

\* OutdoorTempSamples*Gain + Offset, element by element
FitEnergyVsTOutsideFunction(Temps, Gain, Offset) ==
    [i \in 1..Len(Temps) |-> Add(Mul(Temps[i], Gain), Offset)]

Products(xs, ys) == [i \in 1..Len(xs) |-> Mul(xs[i], ys[i])]

\* n*sum(x*y) - sum(x)*sum(y)
CrossSum(xs, ys) ==
    Sub(Mul(FloatOf(Len(xs)), Sum(Products(xs, ys))), Mul(Sum(xs), Sum(ys)))

\* the exceptions curve_fit raises on too few points: none of the script's own
\* (an empty ydata is a ValueError, or a TypeError in older scipy; one point
\* for two parameters is "Improper input: N=2 must not exceed M=1", a TypeError)
CurveFitErrors(xs, ys) ==
    IF Len(ys) = 0 THEN {"ValueError", "TypeError"}
    ELSE IF Len(ys) = 1 THEN {"TypeError"}
    ELSE {}

\* the gain that minimises the squared residuals
\* a least-squares line through the origin
LeastSquaresGainThroughOrigin(xs, ys) ==
    Div(Sum(Products(xs, ys)), Sum(Products(xs, xs)))

LeastSquaresGain(xs, ys) == Div(CrossSum(xs, ys), CrossSum(xs, xs))

\* the offset that minimises the squared residuals for a gain
LeastSquaresOffset(xs, ys, gain) ==
    Div(Sub(Sum(ys), Mul(gain, Sum(xs))), FloatOf(Len(xs)))

\* with all temperatures equal every gain has a minimising offset, and which
\* one the iteration ends in is not fixed by the script: three are kept
DegenerateGains == {FloatOf(-1), Zero, FloatOf(1)}

\* FitParams[0]: the parameter pairs curve_fit can return
CurveFit(xs, ys) ==
    LET gains == IF CrossSum(xs, xs) = Zero THEN DegenerateGains
                 ELSE {LeastSquaresGain(xs, ys)}
    IN  {[Gain |-> g, Offset |-> LeastSquaresOffset(xs, ys, g)] : g \in gains}

Mean(s) == Div(Sum(s), FloatOf(Len(s)))

Deviations(s) ==
    LET m == Mean(s)
    IN  [i \in 1..Len(s) |-> Sub(s[i], m)]

\* the sign of a/b - c/d for a, c >= 0 and b, d > 0, by continued fractions
RECURSIVE FracCmp(_, _, _, _)
FracCmp(a, b, c, d) ==
    LET qa == a \div b
        qc == c \div d
        ra == a % b
        rc == c % d
    IN  IF qa # qc THEN (IF qa < qc THEN -1 ELSE 1)
        ELSE IF ra = 0 /\ rc = 0 THEN 0
        ELSE IF ra = 0 THEN -1
        ELSE IF rc = 0 THEN 1
        ELSE FracCmp(d, rc, b, ra)

\* the largest k in lo..hi with ((2k-1)/2000)^2 <= q, lo when there is none
RECURSIVE RoundSearch(_, _, _)
RoundSearch(q, lo, hi) ==
    IF lo = hi THEN lo
    ELSE LET mid == (lo + hi + 1) \div 2
         IN  IF FracCmp((2 * mid - 1) * (2 * mid - 1), 4000000, q.num, q.den) <= 0
             THEN RoundSearch(q, mid, hi)
             ELSE RoundSearch(q, lo, mid - 1)

\* round(r, 3) in thousandths for r >= 0 given q = r*r <= 1; a value halfway
\* is rounded away from zero by Python 2 and to the even neighbour by Python 3
RoundThousandths(q) ==
    LET k == RoundSearch(q, 0, 1000)
        tie == k > 0 /\ FracCmp((2 * k - 1) * (2 * k - 1), 4000000, q.num, q.den) = 0
    IN  IF tie /\ PythonMajor = 3 /\ k % 2 = 1 THEN k - 1 ELSE k

\* round(pylab.corrcoef(a, b)[0][1], 3): with numpy.cov's entries caa, cbb and
\* cab it is cab/sqrt(caa*cbb), nan when a series has no variance
CorrCoef(a, b) ==
    LET da == Deviations(a)
        db == Deviations(b)
        n1 == FloatOf(Len(a) - 1)
        caa == Div(Sum(Products(da, da)), n1)
        cbb == Div(Sum(Products(db, db)), n1)
        cab == Div(Sum(Products(da, db)), n1)
    IN  IF caa = Zero \/ cbb = Zero THEN Rat(0, 0)
        ELSE Rat(Sign(cab.num) * RoundThousandths(Mul(Div(cab, caa), Div(cab, cbb))), 1000)

\* the temperatures themselves in place of the fitted powers
CorrPowerIsTemperature(Temps, Gain, Offset) == Temps

\* lines 451-454: the list CorrPower of fitted powers Gain*temperature + Offset
CorrPower(Temps, Gain, Offset) ==
    [i \in 1..Len(Temps) |-> Add(Mul(Gain, Temps[i]), Offset)]

\* the (gain, offset, correlation) triples the function can return
FitHeatingAndTemperatureData(Temps, Powers) ==
    {[HeatingPowerGain |-> p.Gain,
      HeatingPowerOffset |-> p.Offset,
      Correlation |-> CorrCoef(CorrPower(Temps, p.Gain, p.Offset), Powers)] :
        p \in CurveFit(Temps, Powers)}

----------------------------------------------------------------------------
(* The degree-day table, lines 160-162, and the days lookup, lines 211-231 *)

\* the table's length
TableLength == 121

\* -30.0, -29.5, ..., 30.0: entry i is (i - 61)/2
EnergyTemperatureListAsWritten == [i \in 1..TableLength |-> Rat(i - 61, 2)]

\* the day counts as written, in units of 0.00001 day
DaysHundredThousandths ==
    <<
      0, 0, 0, 0, 0, 0, 0, 0, 0, 0, 0,
      0, 0, 0, 0, 0, 0, 0, 0, 0, 0, 0,
      0, 0, 0, 0, 0, 0, 0, 0, 0, 1770, 0,
      5311, 5311, 5311, 1770, 1770, 7082, 10624, 5311, 12394, 14165, 3541,
      38953, 23018, 40724, 37183, 37183, 51347, 54888, 79677, 97382, 129252, 131023,
      136335, 208929, 205387, 246111, 274440, 350575, 398381, 428481, 462122, 502845, 566587,
      626786, 633868, 646262, 727709, 810927, 819779, 878208, 901226, 887062, 833944, 830403,
      809156, 764891, 842797, 713545, 768433, 740104, 791450, 756039, 837485, 826862, 858732,
      888832, 839256, 949032, 841027, 848109, 809156, 674592, 658657, 593145, 483369, 449727,
      424940, 334640, 297458, 269129, 175287, 155811, 162893, 131023, 113317, 70823, 79677,
      47805, 53118, 24788, 30100, 15935, 8853, 5311, 1770, 1770, 1770, 0
    >>

DaysPerYearAverageTemperatureAsWritten ==
    [i \in 1..TableLength |-> Rat(DaysHundredThousandths[i], 100000)]

\* the two lists as the assignments of lines 160 and 162 leave them
TableAsWritten ==
    /\ EnergyTemperatureList = EnergyTemperatureListAsWritten
    /\ DaysPerYearAverageTemperature = DaysPerYearAverageTemperatureAsWritten

\* the number of pairs zip(EnergyTemperatureList, DaysPerYearAverageTemperature) yields
ZipLength ==
    IF Len(EnergyTemperatureList) < Len(DaysPerYearAverageTemperature)
    THEN Len(EnergyTemperatureList)
    ELSE Len(DaysPerYearAverageTemperature)

\* an iteration that leaves the day count of a bin equal to the temperature out
DaysStepBinLeftOut(Temperature, i, st) ==
    LET temp == EnergyTemperatureList[i]
        day == DaysPerYearAverageTemperature[i]
    IN  IF Less(temp, Temperature)
        THEN [st EXCEPT !.LowValue = Add(@, day)]
        ELSE IF temp = Temperature
        THEN [LowValue |-> st.LowValue,
              HighValue |-> st.LowValue,
              HighValueTemperature |-> temp,
              HighValueFound |-> TRUE]
        ELSE IF ~st.HighValueFound
        THEN [st EXCEPT !.HighValue = Add(st.LowValue, day),
                        !.HighValueTemperature = temp,
                        !.HighValueFound = TRUE]
        ELSE st

\* lines 217-228: the iteration of the loop on table entry i
DaysStep(Temperature, i, st) ==
    LET temp == EnergyTemperatureList[i]
        day == DaysPerYearAverageTemperature[i]
    IN  IF Less(temp, Temperature)
        THEN [st EXCEPT !.LowValue = Add(@, day)]
        ELSE IF temp = Temperature
        THEN [LowValue |-> Add(st.LowValue, day),
              HighValue |-> Add(st.LowValue, day),
              HighValueTemperature |-> temp,
              HighValueFound |-> TRUE]
        ELSE IF ~st.HighValueFound
        THEN [st EXCEPT !.HighValue = Add(st.LowValue, day),
                        !.HighValueTemperature = temp,
                        !.HighValueFound = TRUE]
        ELSE st

\* line 216: the iterations on entries lo..hi in ascending order, as the first half
\* followed by the second half
RECURSIVE DaysLoop(_, _, _, _)
DaysLoop(Temperature, lo, hi, st) ==
    IF lo > hi THEN st
    ELSE IF lo = hi THEN DaysStep(Temperature, lo, st)
    ELSE LET mid == (lo + hi) \div 2
             half == DaysLoop(Temperature, lo, mid, st)
         IN  IF half.HighValueFound \in BOOLEAN
             THEN DaysLoop(Temperature, mid + 1, hi, half)
             ELSE half

\* a lookup that takes the bins to be a whole degree apart
CalculateDaysWholeDegreeBins(Temperature) ==
    LET st == DaysLoop(Temperature, 1, ZipLength,
                       [LowValue |-> Zero, HighValue |-> Zero,
                        HighValueTemperature |-> Zero, HighValueFound |-> FALSE])
        Fraction == Sub(FloatOf(1), Sub(st.HighValueTemperature, Temperature))
    IN  Add(st.LowValue, Mul(Fraction, Sub(st.HighValue, st.LowValue)))

CalculateDaysPerYearBelowTemperature(Temperature) ==
    LET st == DaysLoop(Temperature, 1, ZipLength,
                       [LowValue |-> Zero, HighValue |-> Zero,
                        HighValueTemperature |-> Zero, HighValueFound |-> FALSE])
        Fraction == Sub(FloatOf(1),
                        Div(Sub(st.HighValueTemperature, Temperature), Rat(1, 2)))
    IN  Add(st.LowValue, Mul(Fraction, Sub(st.HighValue, st.LowValue)))

\* 10^n
RECURSIVE PowerOfTen(_)
PowerOfTen(n) == IF n = 0 THEN 1 ELSE 10 * PowerOfTen(n - 1)

\* round(x, ndigits): the nearest multiple of 10^-ndigits; a value halfway is rounded
\* away from zero by Python 2 and to the even neighbour by Python 3; inf and nan
\* are returned as they are
Round(x, ndigits) ==
    IF x.den = 0 THEN x
    ELSE LET p == PowerOfTen(ndigits)
             whole == x.num \div x.den
             rest == (x.num % x.den) * p
             down == whole * p + (rest \div x.den)
             twice == 2 * (rest % x.den)
             up == IF twice > x.den THEN TRUE
                   ELSE IF twice < x.den THEN FALSE
                   ELSE IF PythonMajor = 2 THEN x.num > 0
                   ELSE down % 2 = 1
         IN  Rat(IF up THEN down + 1 ELSE down, p)

----------------------------------------------------------------------------
(* What the Domoticz server and the CSV file can hold *)

InWindowDates == {<<2019, 9, 12>>, <<2019, 10, 1>>, <<2019, 12, 23>>}

OutOfWindowDates == {<<2019, 9, 11>>, <<2019, 12, 24>>, <<2018, 10, 1>>, <<2020, 10, 1>>}

\* well-formed observations of a sensor, dated inside the analysis window
Observations(s) ==
    CASE s = "OutDoorTemperature" -> {[d |-> dt, ta |-> t] : dt \in InWindowDates, t \in {-5, 5}}
      [] s = "InDoorTemperature" -> {[d |-> dt, ta |-> t] : dt \in InWindowDates, t \in {20, 21}}
      [] s = "TotalElectric" -> {[d |-> dt, v |-> e] : dt \in InWindowDates, e \in {3, 8}}
      [] s = "Gas" -> {[d |-> dt, v |-> g] : dt \in InWindowDates, g \in {2, 5}}
      [] s = "HeatingEnergy" ->
            {[d |-> dt, v_max |-> p[1], v_min |-> p[2]] :
                dt \in InWindowDates, p \in {<<3, 1>>, <<1, 3>>}}

\* a reading that names its date: different dates carry different readings
DateCode(dt) == (dt[1] - 2018) * 400 + dt[2] * 31 + dt[3]

\* items of any date, and items that lack the date or a value key
RawItems(s) ==
    LET dates == InWindowDates \cup OutOfWindowDates
        one == <<2019, 10, 1>>
    IN  CASE s \in {"OutDoorTemperature", "InDoorTemperature"} ->
                {[d |-> dt, ta |-> DateCode(dt)] : dt \in dates}
                    \cup {[d |-> one], [ta |-> DateCode(one)]}
          [] s \in {"TotalElectric", "Gas"} ->
                {[d |-> dt, v |-> DateCode(dt)] : dt \in dates}
                    \cup {[d |-> one], [v |-> DateCode(one)]}
          [] s = "HeatingEnergy" ->
                {[d |-> dt, v_max |-> DateCode(dt), v_min |-> 0] : dt \in dates}
                    \cup {[d |-> one, v_min |-> 0], [d |-> one, v_max |-> DateCode(one)],
                          [v_max |-> DateCode(one), v_min |-> 0]}

Cells == {<<>>, <<5>>}

CSVRowChoices == {<<a, b>> : a \in Cells, b \in Cells}
                    \cup {<<a, b, c, e>> : a \in Cells, b \in Cells, c \in {<<>>, <<20>>},
                                            e \in {<<>>, <<3>>}}

\* the sensors whose URL the run queries
SensorsRead ==
    {"OutDoorTemperature"}
        \cup (IF UseGasDataForHeatingEnergyEstimation THEN {"Gas"} ELSE {"HeatingEnergy"})
        \cup (IF EstimateAdditionalInternalAndExternalEnergy
              THEN {"InDoorTemperature", "TotalElectric"} ELSE {})

StoredCount ==
    Len(Domoticz["OutDoorTemperature"]) + Len(Domoticz["InDoorTemperature"])
        + Len(Domoticz["HeatingEnergy"]) + Len(Domoticz["Gas"]) + Len(Domoticz["TotalElectric"])

\* a value no statement has assigned yet
Unset == [unset |-> TRUE]

----------------------------------------------------------------------------
(* Initial state: the script's configuration block, an empty server and file *)

Init ==
    /\ PythonMajor \in {2, 3}
    /\ TableAsWritten
    /\ UseGasDataForHeatingEnergyEstimation \in BOOLEAN
    /\ EstimateAdditionalInternalAndExternalEnergy \in BOOLEAN
    /\ UseCSVFileAsDataSource \in BOOLEAN
    /\ Domoticz = [s \in Sensors |-> <<>>]
    /\ Unreachable = {}
    /\ CSVRows = <<>>
    /\ pc = "start"
    /\ error = "none"
    /\ OutdoorData = <<>>
    /\ HeatingEnergyData = <<>>
    /\ ElectricEnergyData = <<>>
    /\ IndoorData = <<>>
    /\ Measurements = <<>>
    /\ IndoorTempSamples = <<>>
    /\ OutdoorTempSamples = <<>>
    /\ HeatingPowerSamples = <<>>
    /\ ElectricitySamples = <<>>
    /\ IndoorRows = <<>>
    /\ OutdoorRows = <<>>
    /\ HeatingPowerPerxxhGain = Unset
    /\ HeatingPowerPerxxhOffset = Unset
    /\ Correlation = Unset
    /\ HeatingLimit = Zero
    /\ OutsideTemperatureOfInterest = FloatOf(-7)
    /\ DaysAlternativePower = Unset
    /\ HeatingPowerTemperatureOffInterest = Unset
    /\ AlternativePower = Unset
    /\ AlternativeEnergy = Unset
    /\ AlternativeEnergyCost = Unset
    /\ PowerPointAtIndoorTemperature = Unset
    /\ AverageInternalPower = Unset
    /\ AverageExternalPower = Unset
    /\ TotalEnergy = Unset
    /\ DaysCalls = <<>>

----------------------------------------------------------------------------
(* The environment: what is stored before the script runs *)

DomoticzStores ==
    /\ pc = "start"
    /\ ~UseCSVFileAsDataSource
    /\ StoredCount < MaxObs
    /\ \E s \in SensorsRead : \E item \in Observations(s) :
            Domoticz' = [Domoticz EXCEPT ![s] = Append(@, item)]
    /\ UNCHANGED <<configVars, tableVars, resultVars, CSVRows, Unreachable, pc, error, fetchVars,
                   Measurements,
                   sampleVars, fitVars>>

DomoticzStoresRaw ==
    /\ pc = "start"
    /\ ~UseCSVFileAsDataSource
    /\ StoredCount < MaxRaw
    /\ \E s \in SensorsRead : \E item \in RawItems(s) :
            Domoticz' = [Domoticz EXCEPT ![s] = Append(@, item)]
    /\ UNCHANGED <<configVars, tableVars, resultVars, CSVRows, Unreachable, pc, error, fetchVars,
                   Measurements,
                   sampleVars, fitVars>>

CSVFileHolds ==
    /\ pc = "start"
    /\ UseCSVFileAsDataSource
    /\ Len(CSVRows) < MaxRows
    /\ \E row \in CSVRowChoices : CSVRows' = Append(CSVRows, row)
    /\ UNCHANGED <<configVars, tableVars, resultVars, Domoticz, Unreachable, pc, error, fetchVars,
                   Measurements,
                   sampleVars, fitVars>>

----------------------------------------------------------------------------
(* The main program, lines 605-621 *)

MainGetDataListsFromCSVFile ==
    /\ pc = "start"
    /\ UseCSVFileAsDataSource
    /\ IF CSVIndexError(CSVRows)
       THEN /\ pc' = "error"
            /\ error' = "IndexError"
            /\ UNCHANGED sampleVars
       ELSE LET out == GetDataListsFromCSVFile(CSVRows)
            IN  /\ OutdoorTempSamples' = out.OutdoorTempSamples
                /\ HeatingPowerSamples' = out.HeatingPowerSamples
                /\ IndoorTempSamples' = out.IndoorTempSamples
                /\ ElectricitySamples' = out.ElectricitySamples
                /\ OutdoorRows' = out.OutdoorRows
                /\ IndoorRows' = out.IndoorRows
                /\ pc' = "Fit"
                /\ UNCHANGED error
    /\ UNCHANGED <<configVars, tableVars, resultVars, inputVars, fetchVars, Measurements, fitVars>>

MainGetOutdoorTemp ==
    /\ pc = "start"
    /\ ~UseCSVFileAsDataSource
    /\ OutdoorData' = ReturnList("OutDoorTemperature",
                               GetOutdoorTemp(Domoticz["OutDoorTemperature"]))
    /\ pc' = "GetHeatingEnergy"
    /\ UNCHANGED <<configVars, tableVars, resultVars, inputVars, error, HeatingEnergyData, ElectricEnergyData,
                   IndoorData, Measurements, sampleVars, fitVars>>

AfterHeatingEnergy ==
    IF EstimateAdditionalInternalAndExternalEnergy
    THEN "GetTotalUsedElectricEnergy" ELSE "CreateDictionaryOfData"

MainGetHeatingEnergyFromGasUsage ==
    /\ pc = "GetHeatingEnergy"
    /\ UseGasDataForHeatingEnergyEstimation
    /\ HeatingEnergyData' = ReturnList("Gas", GetHeatingEnergyFromGasUsage(Domoticz["Gas"]))
    /\ pc' = AfterHeatingEnergy
    /\ UNCHANGED <<configVars, tableVars, resultVars, inputVars, error, OutdoorData, ElectricEnergyData,
                   IndoorData, Measurements, sampleVars, fitVars>>

MainGetHeatingEnergy ==
    /\ pc = "GetHeatingEnergy"
    /\ ~UseGasDataForHeatingEnergyEstimation
    /\ HeatingEnergyData' = ReturnList("HeatingEnergy",
                                     GetHeatingEnergy(Domoticz["HeatingEnergy"]))
    /\ pc' = AfterHeatingEnergy
    /\ UNCHANGED <<configVars, tableVars, resultVars, inputVars, error, OutdoorData, ElectricEnergyData,
                   IndoorData, Measurements, sampleVars, fitVars>>

\* RawElectricEnergyData = GetTotalUsedElectricEnergy(); ProcessElectricEnergy(...)
MainGetTotalUsedElectricEnergy ==
    /\ pc = "GetTotalUsedElectricEnergy"
    /\ ElectricEnergyData' =
            ProcessElectricEnergy(
                ReturnList("TotalElectric",
                           GetTotalUsedElectricEnergy(Domoticz["TotalElectric"])))
    /\ pc' = "GetIndoorTemp"
    /\ UNCHANGED <<configVars, tableVars, resultVars, inputVars, error, OutdoorData, HeatingEnergyData,
                   IndoorData, Measurements, sampleVars, fitVars>>

MainGetIndoorTemp ==
    /\ pc = "GetIndoorTemp"
    /\ IndoorData' = ReturnList("InDoorTemperature",
                              GetIndoorTemp(Domoticz["InDoorTemperature"]))
    /\ pc' = "CreateDictionaryOfData"
    /\ UNCHANGED <<configVars, tableVars, resultVars, inputVars, error, OutdoorData, HeatingEnergyData,
                   ElectricEnergyData, Measurements, sampleVars, fitVars>>

\* item['v_max'] of a record without that key raises KeyError
MergeKeyError(heating) ==
    ~UseGasDataForHeatingEnergyEstimation
        /\ \E i \in 1..Len(heating) : "v_max" \notin DOMAIN heating[i]

MainCreateDictionaryOfData ==
    /\ pc = "CreateDictionaryOfData"
    /\ IF MergeKeyError(HeatingEnergyData)
       THEN /\ pc' = "error"
            /\ error' = "KeyError"
            /\ UNCHANGED Measurements
       ELSE /\ Measurements' = CreateDictionaryOfData(IndoorData, OutdoorData,
                                                      HeatingEnergyData, ElectricEnergyData)
            /\ pc' = "GetDataListsFromDictionary"
            /\ UNCHANGED error
    /\ UNCHANGED <<configVars, tableVars, resultVars, inputVars, fetchVars, sampleVars, fitVars>>

MainGetDataListsFromDictionary ==
    /\ pc = "GetDataListsFromDictionary"
    /\ LET out == GetDataListsFromDictionary(Measurements)
       IN  /\ IndoorTempSamples' = out.IndoorTempSamples
           /\ OutdoorTempSamples' = out.OutdoorTempSamples
           /\ HeatingPowerSamples' = out.HeatingPowerSamples
           /\ ElectricitySamples' = out.ElectricEnergySamples
    /\ IndoorRows' = WalkedDates(Measurements)
    /\ OutdoorRows' = WalkedDates(Measurements)
    /\ pc' = "Fit"
    /\ UNCHANGED <<configVars, tableVars, resultVars, inputVars, error, fetchVars, Measurements, fitVars>>

SensorPath ==
    \/ MainGetOutdoorTemp
    \/ MainGetHeatingEnergyFromGasUsage
    \/ MainGetHeatingEnergy
    \/ MainGetTotalUsedElectricEnergy
    \/ MainGetIndoorTemp
    \/ MainCreateDictionaryOfData
    \/ MainGetDataListsFromDictionary

\* aggregation of in-window observations, and the CSV reader
Next == DomoticzStores \/ CSVFileHolds \/ MainGetDataListsFromCSVFile \/ SensorPath

Spec == Init /\ [][Next]_vars

\* the filters of the Get* functions on items of any date and shape
InitRaw == Init /\ ~UseCSVFileAsDataSource

NextRaw == DomoticzStoresRaw \/ SensorPath

SpecRaw == InitRaw /\ [][NextRaw]_vars

\* the environment: the URL of a sensor the run queries answers with an error
URLFails ==
    /\ pc = "start"
    /\ ~UseCSVFileAsDataSource
    /\ Cardinality(Unreachable) < MaxFailing
    /\ \E s \in SensorsRead \ Unreachable : Unreachable' = Unreachable \cup {s}
    /\ UNCHANGED <<configVars, tableVars, resultVars, Domoticz, CSVRows, pc, error, fetchVars,
                   Measurements, sampleVars, fitVars>>

DomoticzHolds ==
    /\ pc = "start"
    /\ ~UseCSVFileAsDataSource
    /\ StoredCount < MaxHeld
    /\ \E s \in SensorsRead : \E item \in Observations(s) :
            Domoticz' = [Domoticz EXCEPT ![s] = Append(@, item)]
    /\ UNCHANGED <<configVars, tableVars, resultVars, CSVRows, Unreachable, pc, error, fetchVars,
                   Measurements, sampleVars, fitVars>>

\* runs on a server of which some URLs fail
NextFetch == DomoticzHolds \/ URLFails \/ SensorPath

SpecFetch == InitRaw /\ [][NextFetch]_vars

----------------------------------------------------------------------------
(* The fit and the heating limit, lines 624-631, on sample lists of any content *)

\* sample days: three lines through (0, 2), and a point off them
SamplePoints ==
    {<<-5, 3>>, <<0, 2>>, <<5, 1>>, <<10, 0>>,
     <<-5, 2>>, <<5, 2>>, <<10, 2>>, <<0, 3>>}

InitFit ==
    /\ PythonMajor \in {2, 3}
    /\ TableAsWritten
    /\ UseGasDataForHeatingEnergyEstimation = FALSE
    /\ EstimateAdditionalInternalAndExternalEnergy = FALSE
    /\ UseCSVFileAsDataSource = FALSE
    /\ Domoticz = [s \in Sensors |-> <<>>]
    /\ Unreachable = {}
    /\ CSVRows = <<>>
    /\ pc = "Fit"
    /\ error = "none"
    /\ OutdoorData = <<>>
    /\ HeatingEnergyData = <<>>
    /\ ElectricEnergyData = <<>>
    /\ IndoorData = <<>>
    /\ Measurements = <<>>
    /\ \E n \in 0..MaxSamples : \E days \in [1..n -> SamplePoints] :
            /\ OutdoorTempSamples = [i \in 1..n |-> FloatOf(days[i][1])]
            /\ HeatingPowerSamples = [i \in 1..n |-> FloatOf(days[i][2])]
            /\ OutdoorRows = [i \in 1..n |-> <<i>>]
            /\ IndoorRows = [i \in 1..n |-> <<i>>]
            /\ IndoorTempSamples = [i \in 1..n |-> Zero]
            /\ ElectricitySamples = [i \in 1..n |-> Zero]
    /\ HeatingPowerPerxxhGain = Unset
    /\ HeatingPowerPerxxhOffset = Unset
    /\ Correlation = Unset
    /\ HeatingLimit = Zero
    /\ OutsideTemperatureOfInterest = FloatOf(-7)
    /\ DaysAlternativePower = Unset
    /\ HeatingPowerTemperatureOffInterest = Unset
    /\ AlternativePower = Unset
    /\ AlternativeEnergy = Unset
    /\ AlternativeEnergyCost = Unset
    /\ PowerPointAtIndoorTemperature = Unset
    /\ AverageInternalPower = Unset
    /\ AverageExternalPower = Unset
    /\ TotalEnergy = Unset
    /\ DaysCalls = <<>>

\* line 624
MainFitHeatingAndTemperatureData ==
    /\ pc = "Fit"
    /\ IF CurveFitErrors(OutdoorTempSamples, HeatingPowerSamples) # {}
       THEN /\ \E e \in CurveFitErrors(OutdoorTempSamples, HeatingPowerSamples) : error' = e
            /\ pc' = "error"
            /\ UNCHANGED fitVars
       ELSE /\ \E r \in FitHeatingAndTemperatureData(OutdoorTempSamples, HeatingPowerSamples) :
                    /\ HeatingPowerPerxxhGain' = r.HeatingPowerGain
                    /\ HeatingPowerPerxxhOffset' = r.HeatingPowerOffset
                    /\ Correlation' = r.Correlation
            /\ pc' = "HeatingLimit"
            /\ UNCHANGED <<error, HeatingLimit>>
    /\ UNCHANGED <<configVars, tableVars, resultVars, inputVars, fetchVars, Measurements, sampleVars>>

\* line 631
MainHeatingLimit ==
    /\ pc = "HeatingLimit"
    /\ HeatingLimit' = Div(Mul(FloatOf(-1), HeatingPowerPerxxhOffset), HeatingPowerPerxxhGain)
    /\ pc' = "Clamp"
    /\ UNCHANGED <<configVars, tableVars, resultVars, inputVars, error, fetchVars, Measurements, sampleVars,
                   HeatingPowerPerxxhGain, HeatingPowerPerxxhOffset, Correlation>>

NextFit == MainFitHeatingAndTemperatureData \/ MainHeatingLimit

SpecFit == InitFit /\ [][NextFit]_vars

----------------------------------------------------------------------------
(* CalculateDaysPerYearBelowTemperature on temperatures of any size *)

\* calls recorded in a run of the lookup
MaxCalls == 2

\* query temperatures in quarter degrees: below the table, on and between bins, and
\* above the table
QueryQuarters ==
    {-400, -121, -120, -119, -29, -28, 0, 39, 40, 119, 120, 122, 124, 130}

QueryTemperatures == {Rat(q, 4) : q \in QueryQuarters}

\* no sensor data, no file and no samples
NoData ==
    /\ Domoticz = [s \in Sensors |-> <<>>]
    /\ Unreachable = {}
    /\ CSVRows = <<>>
    /\ OutdoorData = <<>>
    /\ HeatingEnergyData = <<>>
    /\ ElectricEnergyData = <<>>
    /\ IndoorData = <<>>
    /\ Measurements = <<>>
    /\ IndoorTempSamples = <<>>
    /\ OutdoorTempSamples = <<>>
    /\ HeatingPowerSamples = <<>>
    /\ ElectricitySamples = <<>>
    /\ IndoorRows = <<>>
    /\ OutdoorRows = <<>>

\* nothing computed yet by the statements from line 624 on
NothingComputed ==
    /\ HeatingPowerPerxxhGain = Unset
    /\ HeatingPowerPerxxhOffset = Unset
    /\ Correlation = Unset
    /\ HeatingLimit = Zero
    /\ DaysAlternativePower = Unset
    /\ HeatingPowerTemperatureOffInterest = Unset
    /\ AlternativePower = Unset
    /\ AlternativeEnergy = Unset
    /\ AlternativeEnergyCost = Unset
    /\ PowerPointAtIndoorTemperature = Unset
    /\ AverageInternalPower = Unset
    /\ AverageExternalPower = Unset
    /\ TotalEnergy = Unset

InitDays ==
    /\ PythonMajor \in {2, 3}
    /\ TableAsWritten
    /\ UseGasDataForHeatingEnergyEstimation = FALSE
    /\ EstimateAdditionalInternalAndExternalEnergy = FALSE
    /\ UseCSVFileAsDataSource = FALSE
    /\ NoData
    /\ NothingComputed
    /\ pc = "Days"
    /\ error = "none"
    /\ OutsideTemperatureOfInterest = FloatOf(-7)
    /\ DaysCalls = <<>>

CallCalculateDaysPerYearBelowTemperature ==
    /\ pc = "Days"
    /\ Len(DaysCalls) < MaxCalls
    /\ \E Temperature \in QueryTemperatures :
            DaysCalls' = Append(DaysCalls,
                                [Temperature |-> Temperature,
                                 DaysPerYear |-> CalculateDaysPerYearBelowTemperature(Temperature)])
    /\ UNCHANGED <<configVars, tableVars, inputVars, pc, error, fetchVars, Measurements, sampleVars,
                   fitVars, OutsideTemperatureOfInterest, alternativeVars,
                   decompositionVars, TotalEnergy>>

NextDays == CallCalculateDaysPerYearBelowTemperature

SpecDays == InitDays /\ [][NextDays]_vars

----------------------------------------------------------------------------
(* The statements after the fit, lines 631-655, on fits of any sign *)

\* the electricity term of line 650 taken without its sign
ElectricPowerUnsigned(Samples) ==
    Div(Div(Sum(Samples), FloatOf(Len(Samples))), FloatOf(HoursForHeatingADay))

\* line 650
ElectricPower(Samples) ==
    Mul(FloatOf(-1),
        Div(Div(Sum(Samples), FloatOf(Len(Samples))), FloatOf(HoursForHeatingADay)))

\* line 651
PowerFromPeople == Mul(FloatOf(-1), Div(HeatFromWarmBodies, FloatOf(HoursForHeatingADay)))

\* lines 550-554: the entry of ScaledEnergyVsAverageTemperature for table entry i,
\* before the scaling of lines 559-560
EnergyOfBin(i) ==
    IF Less(EnergyTemperatureList[i], HeatingLimit)
    THEN Mul(Mul(Add(Mul(HeatingPowerPerxxhGain, EnergyTemperatureList[i]),
                     HeatingPowerPerxxhOffset),
                 DaysPerYearAverageTemperature[i]),
             FloatOf(HoursForHeatingADay))
    ELSE Zero

\* a finite number as its floor and the rest in [0, 1), which keeps the numerators
\* of a long sum small
Split(x) == [whole |-> x.num \div x.den, part |-> Rat(x.num % x.den, x.den)]

SplitPlus(a, b) ==
    LET p == Add(a.part, b.part)
    IN  IF Less(p, FloatOf(1)) THEN [whole |-> a.whole + b.whole, part |-> p]
        ELSE [whole |-> a.whole + b.whole + 1, part |-> Sub(p, FloatOf(1))]

\* sum(ScaledEnergyVsAverageTemperature) over entries lo..hi, before the scaling
RECURSIVE EnergyOfBins(_, _)
EnergyOfBins(lo, hi) ==
    IF lo = hi THEN Split(EnergyOfBin(lo))
    ELSE LET mid == (lo + hi) \div 2
         IN  SplitPlus(EnergyOfBins(lo, mid), EnergyOfBins(mid + 1, hi))

\* int(): truncation towards zero
IntOf(x) == IF x.whole < 0 /\ x.part # Zero THEN x.whole + 1 ELSE x.whole

\* a PlotEnergyDistribution whose list of line 549 is the list of day counts itself:
\* the loop of lines 559-560 then rescales the day counts, here by 2
DaysRescaledInPlace ==
    [i \in 1..TableLength |-> Mul(DaysPerYearAverageTemperature[i], FloatOf(2))]

\* the list of day counts when PlotEnergyDistribution ends: line 549 makes
\* ScaledEnergyVsAverageTemperature a new list, the loops of lines 550-554 and 559-560
\* append to and assign into that list only, and zip, max and plot read their arguments
DaysAfterPlotEnergyDistribution == DaysPerYearAverageTemperature

\* PlotEnergyDistribution, lines 548-568.  Every entry is 0 for a bin with no days, so
\* max(ScaledEnergyVsAverageTemperature) is positive or 0.  When it is positive,
\* EnergyScaleFactor is finite and not 0, and multiplying every entry by it (lines
\* 559-560) and dividing their sum by it (line 568) cancel.  When it is 0, max returns
\* the first entry: the Python float 0.0 of line 554 when the lowest bin is not below
\* the heating limit, and line 556 raises ZeroDivisionError; a numpy zero of line 552
\* otherwise, line 556 yields an infinite factor, the zero entries become nan and
\* int() of line 563 raises ValueError.
PlotEnergyDistribution ==
    IF \E i \in 1..TableLength : Less(Zero, EnergyOfBin(i))
    THEN [error |-> "none", TotalEnergy |-> IntOf(EnergyOfBins(1, TableLength))]
    ELSE IF Less(EnergyTemperatureList[1], HeatingLimit)
    THEN [error |-> "ValueError", TotalEnergy |-> Unset]
    ELSE [error |-> "ZeroDivisionError", TotalEnergy |-> Unset]

\* fitted lines through (0, offset): gains and offsets in tenths
FitGainTenths == {-3, -2, 0, 2}

FitOffsetTenths == {-62, -22, 0, 20, 62}

\* temperatures of interest a configuration block can hold: the value of line 108
\* and one above the usual heating limits
TemperaturesOfInterest == {ConfiguredTemperatureOfInterest, FloatOf(10)}

\* electricity samples of two days: usual, none, and net delivery
ElectricitySeries == {<<FloatOf(10), FloatOf(12)>>, <<Zero, Zero>>, <<FloatOf(-200), Zero>>}

\* two aligned days at 0 and 5 degrees lying on a line, and the configuration
InitMain ==
    /\ PythonMajor \in {2, 3}
    /\ TableAsWritten
    /\ UseGasDataForHeatingEnergyEstimation = FALSE
    /\ EstimateAdditionalInternalAndExternalEnergy \in BOOLEAN
    /\ UseCSVFileAsDataSource = FALSE
    /\ Domoticz = [s \in Sensors |-> <<>>]
    /\ Unreachable = {}
    /\ CSVRows = <<>>
    /\ OutdoorData = <<>>
    /\ HeatingEnergyData = <<>>
    /\ ElectricEnergyData = <<>>
    /\ IndoorData = <<>>
    /\ Measurements = <<>>
    /\ OutdoorTempSamples = <<Zero, FloatOf(5)>>
    /\ \E g \in FitGainTenths : \E o \in FitOffsetTenths :
            HeatingPowerSamples = <<Rat(o, 10), Rat(5 * g + o, 10)>>
    /\ IF EstimateAdditionalInternalAndExternalEnergy
       THEN /\ IndoorTempSamples = <<FloatOf(20), FloatOf(21)>>
            /\ ElectricitySamples \in ElectricitySeries
       ELSE /\ IndoorTempSamples = <<Zero, Zero>>
            /\ ElectricitySamples = <<Zero, Zero>>
    /\ OutdoorRows = <<<<1>>, <<2>>>>
    /\ IndoorRows = <<<<1>>, <<2>>>>
    /\ NothingComputed
    /\ pc = "Fit"
    /\ error = "none"
    /\ OutsideTemperatureOfInterest \in TemperaturesOfInterest
    /\ DaysCalls = <<>>

\* lines 635-636
MainClamp ==
    /\ pc = "Clamp"
    /\ OutsideTemperatureOfInterest' =
            IF Less(HeatingLimit, OutsideTemperatureOfInterest)
            THEN Round(HeatingLimit, 2)
            ELSE OutsideTemperatureOfInterest
    /\ pc' = "Alternative"
    /\ UNCHANGED <<configVars, tableVars, inputVars, error, fetchVars, Measurements, sampleVars,
                   fitVars, alternativeVars, decompositionVars, TotalEnergy, DaysCalls>>

\* the power at the temperature of line 108 in place of the temperature of interest
HeatingPowerAtConfigured(Temperature) ==
    IF Temperature = FloatOf(-15)
    THEN Add(Mul(HeatingPowerPerxxhGain, Temperature), HeatingPowerPerxxhOffset)
    ELSE Add(Mul(HeatingPowerPerxxhGain, ConfiguredTemperatureOfInterest),
             HeatingPowerPerxxhOffset)

\* lines 639 and 640: the fitted line at a temperature
HeatingPowerAt(Temperature) ==
    Add(Mul(HeatingPowerPerxxhGain, Temperature), HeatingPowerPerxxhOffset)

\* lines 638-643
MainAlternativeEnergy ==
    /\ pc = "Alternative"
    /\ LET Days == CalculateDaysPerYearBelowTemperature(OutsideTemperatureOfInterest)
           HeatingPowerMinus15 == HeatingPowerAt(FloatOf(-15))
           PowerOffInterest == HeatingPowerAt(OutsideTemperatureOfInterest)
           Energy ==
               Round(Mul(Mul(Mul(Sub(HeatingPowerMinus15, PowerOffInterest),
                                 Round(Days, 1)),
                             FloatOf(HoursForHeatingADay)),
                         Rat(1, 2)),
                     2)
       IN  /\ DaysCalls' = Append(DaysCalls,
                                  [Temperature |-> OutsideTemperatureOfInterest,
                                   DaysPerYear |-> Days])
           /\ DaysAlternativePower' = Round(Days, 1)
           /\ HeatingPowerTemperatureOffInterest' = PowerOffInterest
           /\ AlternativePower' = Round(Sub(HeatingPowerMinus15, PowerOffInterest), 2)
           /\ AlternativeEnergy' = Energy
           /\ AlternativeEnergyCost' = Round(Mul(CostPerkWh, Energy), 2)
    /\ pc' = "Decomposition"
    /\ UNCHANGED <<configVars, tableVars, inputVars, error, fetchVars, Measurements, sampleVars,
                   fitVars, OutsideTemperatureOfInterest, decompositionVars, TotalEnergy>>

\* lines 645-653
MainDecomposition ==
    /\ pc = "Decomposition"
    /\ IF ~EstimateAdditionalInternalAndExternalEnergy
       THEN /\ pc' = "Plot"
            /\ UNCHANGED <<error, decompositionVars>>
       ELSE IF IndoorTempSamples = <<>> \/ ElectricitySamples = <<>>
       THEN /\ pc' = "error"
            /\ error' = "ZeroDivisionError"
            /\ UNCHANGED decompositionVars
       ELSE LET AverageIndoorTemp ==
                    Div(Sum(IndoorTempSamples), FloatOf(Len(IndoorTempSamples)))
                PowerPoint ==
                    Add(Mul(HeatingPowerPerxxhGain, AverageIndoorTemp),
                        HeatingPowerPerxxhOffset)
                InternalPower == Add(ElectricPower(ElectricitySamples), PowerFromPeople)
            IN  /\ PowerPointAtIndoorTemperature' = PowerPoint
                /\ AverageInternalPower' = InternalPower
                /\ AverageExternalPower' = Sub(PowerPoint, InternalPower)
                /\ pc' = "Plot"
                /\ UNCHANGED error
    /\ UNCHANGED <<configVars, tableVars, inputVars, fetchVars, Measurements, sampleVars, fitVars,
                   OutsideTemperatureOfInterest, alternativeVars, TotalEnergy, DaysCalls>>

\* line 655: PlotData, whose call of PlotEnergyDistribution (line 465) computes the
\* yearly total
MainPlotData ==
    /\ pc = "Plot"
    /\ LET r == PlotEnergyDistribution
       IN  /\ TotalEnergy' = r.TotalEnergy
           /\ error' = r.error
           /\ pc' = IF r.error = "none" THEN "done" ELSE "error"
    /\ DaysPerYearAverageTemperature' = DaysAfterPlotEnergyDistribution
    /\ UNCHANGED <<configVars, EnergyTemperatureList, inputVars, fetchVars, Measurements, sampleVars, fitVars,
                   OutsideTemperatureOfInterest, alternativeVars, decompositionVars,
                   DaysCalls>>

NextMain ==
    \/ MainFitHeatingAndTemperatureData
    \/ MainHeatingLimit
    \/ MainClamp
    \/ MainAlternativeEnergy
    \/ MainDecomposition
    \/ MainPlotData

SpecMain == InitMain /\ [][NextMain]_vars

----------------------------------------------------------------------------
(* A whole run on a CSV file, lines 600-655 *)

\* the outdoor and heating cells of a row: a day at 0 degrees using 44 kWh, a day at
\* 5 degrees using 22 kWh, or both blank
CSVOutdoorCells == {<<<<0>>, <<44>>>>, <<<<5>>, <<22>>>>, <<<<>>, <<>>>>}

\* the indoor and electricity cells of a row: both filled, both blank, or one blank
CSVIndoorCells == {<<<<20>>, <<3>>>>, <<<<>>, <<>>>>, <<<<20>>, <<>>>>}

CSVDayRows == {<<a[1], a[2], b[1], b[2]>> : a \in CSVOutdoorCells, b \in CSVIndoorCells}

InitCSVRun ==
    /\ PythonMajor \in {2, 3}
    /\ TableAsWritten
    /\ UseGasDataForHeatingEnergyEstimation = FALSE
    /\ EstimateAdditionalInternalAndExternalEnergy \in BOOLEAN
    /\ UseCSVFileAsDataSource = TRUE
    /\ Domoticz = [s \in Sensors |-> <<>>]
    /\ Unreachable = {}
    /\ \E n \in 0..MaxRows : CSVRows \in [1..n -> CSVDayRows]
    /\ OutdoorData = <<>>
    /\ HeatingEnergyData = <<>>
    /\ ElectricEnergyData = <<>>
    /\ IndoorData = <<>>
    /\ Measurements = <<>>
    /\ IndoorTempSamples = <<>>
    /\ OutdoorTempSamples = <<>>
    /\ HeatingPowerSamples = <<>>
    /\ ElectricitySamples = <<>>
    /\ IndoorRows = <<>>
    /\ OutdoorRows = <<>>
    /\ NothingComputed
    /\ pc = "start"
    /\ error = "none"
    /\ OutsideTemperatureOfInterest = ConfiguredTemperatureOfInterest
    /\ DaysCalls = <<>>

NextCSVRun == MainGetDataListsFromCSVFile \/ NextMain

SpecCSVRun == InitCSVRun /\ [][NextCSVRun]_vars

----------------------------------------------------------------------------
(* Vocabulary of the aggregation properties *)

Fields == {"OutdoorTemperature", "IndoorTemperature", "Energy", "ElectricEnergy"}

\* the in-window observations of a field handed to the merge
FieldData(f) ==
    CASE f = "OutdoorTemperature" -> OutdoorData
      [] f = "IndoorTemperature" -> IndoorData
      [] f = "Energy" -> HeatingEnergyData
      [] f = "ElectricEnergy" -> ElectricEnergyData

\* the aligned sequence of a field
FieldSamples(f) ==
    CASE f = "OutdoorTemperature" -> OutdoorTempSamples
      [] f = "IndoorTemperature" -> IndoorTempSamples
      [] f = "Energy" -> HeatingPowerSamples
      [] f = "ElectricEnergy" -> ElectricitySamples

\* the daily heating energy a heating or gas record stands for
ObservedEnergy(item) ==
    IF UseGasDataForHeatingEnergyEstimation
    THEN ConvertGasTokWh(FloatOf(item.v))
    ELSE DirectEnergy(item)

\* the sample an observation of a field stands for
ObservedValue(f, item) ==
    CASE f = "OutdoorTemperature" -> FloatOf(item.ta)
      [] f = "IndoorTemperature" -> FloatOf(item.ta)
      [] f = "Energy" -> HeatingPowerOfText(FloatStr(ObservedEnergy(item)))
      [] f = "ElectricEnergy" -> item.v

DatesOf(f) == {FieldData(f)[i].d : i \in 1..Len(FieldData(f))}

ObservedDates == UNION {DatesOf(f) : f \in Fields}

\* the last observation of field f dated d
LastOn(f, d) ==
    LET data == FieldData(f)
        i == CHOOSE k \in 1..Len(data) :
                data[k].d = d /\ \A j \in (k + 1)..Len(data) : data[j].d # d
    IN  data[i]

\* the sensor path has merged and walked the observations
Aligned == pc = "Fit" /\ ~UseCSVFileAsDataSource

AlignedSeries ==
    [ElectricEnergySamples |-> ElectricitySamples, HeatingPowerSamples |-> HeatingPowerSamples,
     IndoorTempSamples |-> IndoorTempSamples, OutdoorTempSamples |-> OutdoorTempSamples]

\* the orderings of a list
Orderings(list) ==
    {[i \in 1..Len(list) |-> list[p[i]]] : p \in Permutations(1..Len(list))}

OnePerDateAndField ==
    \A f \in Fields : \A i, j \in 1..Len(FieldData(f)) :
        FieldData(f)[i].d = FieldData(f)[j].d => i = j

----------------------------------------------------------------------------
(* Properties of the aggregator *)

\* C1: forward-fill follows calendar order: when a walked day D has no value for a
\* field, its aligned value is the field's value on the latest day before D that has one.
C1_ForwardFillCalendarOrder ==
    Aligned =>
        \A f \in Fields : \A i \in 1..Len(Measurements) :
            LET D == Measurements[i].d
                earlier == {e \in DatesOf(f) : DateLess(e, D)}
            IN  (D \notin DatesOf(f) /\ earlier # {}) =>
                    LET P == CHOOSE e \in earlier : \A e2 \in earlier : DateLessEq(e2, e)
                    IN  FieldSamples(f)[i] = ObservedValue(f, LastOn(f, P))

\* C2: aggregation is invariant to arrival order: every ordering of the same
\* observations (at most one per date and field) yields the same four aligned sequences.
C2_ArrivalOrderInvariant ==
    (Aligned /\ OnePerDateAndField) =>
        \A i \in Orderings(IndoorData), o \in Orderings(OutdoorData),
           h \in Orderings(HeatingEnergyData), e \in Orderings(ElectricEnergyData) :
            GetDataListsFromDictionary(CreateDictionaryOfData(i, o, h, e)) = AlignedSeries

\* C3: the aligned series is in ascending date order: index i refers to an earlier
\* calendar day than index i+1.
C3_AscendingDates ==
    Aligned =>
        \A i \in 1..(Len(OutdoorRows) - 1) : DateLess(OutdoorRows[i], OutdoorRows[i + 1])

\* C4: the four sample sequences handed to the fit and the gain decomposition have
\* equal length and index i refers to the same day in all four, on the sensor path and
\* the CSV path, for every setting of EstimateAdditionalInternalAndExternalEnergy.
C4_EqualLengthSameDay ==
    pc = "Fit" =>
        /\ Len(OutdoorTempSamples) = Len(HeatingPowerSamples)
        /\ Len(IndoorTempSamples) = Len(ElectricitySamples)
        /\ Len(OutdoorTempSamples) = Len(IndoorTempSamples)
        /\ OutdoorRows = IndoorRows

\* C5: the merge gives exactly one aligned entry per distinct date of the in-window
\* observations, and where a field is observed more than once on a date the aligned
\* value of that date is the value of the last such observation.
C5_OneEntryPerDateLastWins ==
    Aligned =>
        /\ \A f \in Fields : Len(FieldSamples(f)) = Cardinality(ObservedDates)
        /\ \A f \in Fields : \A d \in DatesOf(f) :
                /\ KeyIndex(Measurements, d) # 0
                /\ FieldSamples(f)[KeyIndex(Measurements, d)] = ObservedValue(f, LastOn(f, d))

\* C5 witness: a field observed twice on one date with different values, beside an
\* observation on another date, has been merged and walked.
C5_Witness ==
    /\ Aligned
    /\ Cardinality(ObservedDates) = 2
    /\ \E f \in Fields : \E i, j \in 1..Len(FieldData(f)) :
            /\ i < j
            /\ FieldData(f)[i].d = FieldData(f)[j].d
            /\ ObservedValue(f, FieldData(f)[i]) # ObservedValue(f, FieldData(f)[j])

\* the readings the in-window dates carry, as the samples they become
InWindowSamples(f) ==
    {Zero} \cup
    {CASE f \in {"OutdoorTemperature", "IndoorTemperature"} -> FloatOf(DateCode(dt))
       [] f = "ElectricEnergy" -> CorrectedUsage(DateCode(dt))
       [] f = "Energy" ->
            HeatingPowerOfText(FloatStr(IF UseGasDataForHeatingEnergyEstimation
                                        THEN ConvertGasTokWh(FloatOf(DateCode(dt)))
                                        ELSE FloatOf(DateCode(dt)))) : dt \in InWindowDates}

\* an item that carries a date and the value key(s) of its sensor
HasValue(s, item) ==
    /\ "d" \in DOMAIN item
    /\ CASE s \in {"OutDoorTemperature", "InDoorTemperature"} -> "ta" \in DOMAIN item
         [] s \in {"TotalElectric", "Gas"} -> "v" \in DOMAIN item
         [] s = "HeatingEnergy" -> {"v_max", "v_min"} \subseteq DOMAIN item

\* the dates of the list a Get* function returned for sensor s, once it has run
Fetched(s) ==
    CASE s = "OutDoorTemperature" -> OutdoorData
      [] s = "InDoorTemperature" -> IndoorData
      [] s \in {"HeatingEnergy", "Gas"} -> HeatingEnergyData
      [] s = "TotalElectric" -> ElectricEnergyData

HasFetched(s) ==
    CASE s = "OutDoorTemperature" -> pc # "start"
      [] s \in {"HeatingEnergy", "Gas"} -> pc \notin {"start", "GetHeatingEnergy"}
      [] s = "TotalElectric" -> pc \notin {"start", "GetHeatingEnergy", "GetTotalUsedElectricEnergy"}
      [] s = "InDoorTemperature" ->
            pc \notin {"start", "GetHeatingEnergy", "GetTotalUsedElectricEnergy", "GetIndoorTemp"}

\* C6: an observation is kept for merging if and only if its date lies in
\* [DateStartAnalyses, DateEndAnalyses], both bounds included, and no observation dated
\* outside the window contributes a date or a value to the aligned series.
C6_WindowInclusive ==
    /\ \A s \in SensorsRead : HasFetched(s) =>
            /\ \A k \in 1..Len(Fetched(s)) : Fetched(s)[k].d \in InWindowDates
            /\ \A k \in 1..Len(Domoticz[s]) :
                    (HasValue(s, Domoticz[s][k]) /\ Domoticz[s][k].d \in InWindowDates) =>
                        \E j \in 1..Len(Fetched(s)) : Fetched(s)[j].d = Domoticz[s][k].d
            /\ Len(Fetched(s)) <= Len(Domoticz[s])
    /\ \A i \in 1..Len(Measurements) : Measurements[i].d \in InWindowDates
    /\ Aligned => \A f \in Fields : \A i \in 1..Len(FieldSamples(f)) :
                        FieldSamples(f)[i] \in InWindowSamples(f)

\* C6 witness: the server holds a reading dated on the last day of the window and one
\* dated the day after, and the run has aligned its series.
C6_Witness ==
    /\ Aligned
    /\ \E s \in SensorsRead : \E j, k \in 1..Len(Domoticz[s]) :
            /\ HasValue(s, Domoticz[s][j]) /\ Domoticz[s][j].d = <<2019, 12, 23>>
            /\ HasValue(s, Domoticz[s][k]) /\ Domoticz[s][k].d = <<2019, 12, 24>>
    /\ Len(Measurements) = 1

\* C7: in direct energy mode a heating record with v_max < v_min makes the conversion
\* signal DataIntegrityError; a negative daily heating energy is never written into the
\* merged data or the heating-power series.
C7_NegativeEnergySignalled ==
    (~UseCSVFileAsDataSource /\ ~UseGasDataForHeatingEnergyEstimation) =>
        /\ \A i \in 1..Len(Measurements) : \A k \in 1..Len(Measurements[i].ValueList) :
                "Energy" \in DOMAIN Measurements[i].ValueList[k] =>
                    FloatOfText(Measurements[i].ValueList[k].Energy).num >= 0
        /\ \A i \in 1..Len(HeatingPowerSamples) : HeatingPowerSamples[i].num >= 0
        /\ (pc \in {"GetDataListsFromDictionary", "Fit", "error"}
                /\ \E i \in 1..Len(HeatingEnergyData) :
                        /\ {"v_max", "v_min"} \subseteq DOMAIN HeatingEnergyData[i]
                        /\ HeatingEnergyData[i].v_max < HeatingEnergyData[i].v_min)
              => error = "DataIntegrityError"

\* the claimed gas conversion: (gasVolume - 8/30) * (31.65/3.6)
ClaimedGasEnergy(v) == Mul(Sub(FloatOf(v), Rat(8, 30)), Rat(3165, 360))

\* C8: in gas mode the daily heating energy is (gasVolume - 8/30 m3) * EnergyPerCubicMeterGas
\* for every gas volume (5 m3 gives 41.62 kWh within 0.01), on the sensor path and on
\* the CSV path.
C8_GasConversion ==
    UseGasDataForHeatingEnergyEstimation =>
        /\ \A i \in 1..Len(Measurements) : \A k \in 1..Len(Measurements[i].ValueList) :
                "Energy" \in DOMAIN Measurements[i].ValueList[k] =>
                    \E j \in 1..Len(HeatingEnergyData) :
                        /\ HeatingEnergyData[j].d = Measurements[i].d
                        /\ FloatOfText(Measurements[i].ValueList[k].Energy)
                                = ClaimedGasEnergy(HeatingEnergyData[j].v)
                        /\ HeatingEnergyData[j].v = 5 =>
                                /\ LessEq(Rat(4161, 100),
                                          FloatOfText(Measurements[i].ValueList[k].Energy))
                                /\ LessEq(FloatOfText(Measurements[i].ValueList[k].Energy),
                                          Rat(4163, 100))
        /\ Aligned => \A d \in DatesOf("Energy") :
                HeatingPowerSamples[KeyIndex(Measurements, d)]
                    = Div(ClaimedGasEnergy(LastOn("Energy", d).v), FloatOf(HoursForHeatingADay))
        /\ (pc = "Fit" /\ UseCSVFileAsDataSource) =>
                \A i \in 1..Len(OutdoorRows) :
                    HeatingPowerSamples[i]
                        = Div(ClaimedGasEnergy(CSVRows[OutdoorRows[i][1]][2][1]),
                              FloatOf(HoursForHeatingADay))

\* the conversion as the claim states it is what the script computes when Python 3 runs it
GasConversionUnderPython3 == PythonMajor = 3 => C8_GasConversion

\* on the sensor path the four sequences are appended to together, once per walked date
SensorPathEqualLength ==
    Aligned =>
        /\ Len(OutdoorTempSamples) = Len(HeatingPowerSamples)
        /\ Len(IndoorTempSamples) = Len(ElectricitySamples)
        /\ Len(OutdoorTempSamples) = Len(IndoorTempSamples)
        /\ OutdoorRows = IndoorRows

\* the CSV reader with the decomposition switched on: the case in which all four
\* sequences are read
CSVEqualLengthWhenEstimating ==
    (pc = "Fit" /\ UseCSVFileAsDataSource /\ EstimateAdditionalInternalAndExternalEnergy) =>
        /\ Len(OutdoorTempSamples) = Len(IndoorTempSamples)
        /\ OutdoorRows = IndoorRows

----------------------------------------------------------------------------
(* Vocabulary of the fit properties *)

FitAttempted == pc \in {"error", "HeatingLimit", "Clamp"}

FitReturned == pc \in {"HeatingLimit", "Clamp"}

FitValues == <<HeatingPowerPerxxhGain, HeatingPowerPerxxhOffset, Correlation>>

\* every sample day lies on power = g*temperature + o
OnLine(g, o) ==
    \A i \in 1..Len(OutdoorTempSamples) :
        HeatingPowerSamples[i] = Add(Mul(g, OutdoorTempSamples[i]), o)

\* the gain of the line through sample days i and j
LineGain(i, j) ==
    Div(Sub(HeatingPowerSamples[j], HeatingPowerSamples[i]),
        Sub(OutdoorTempSamples[j], OutdoorTempSamples[i]))

\* the fit returned g and o with correlation 1.0, and the heating limit, once
\* computed, is the temperature at which g*temperature + o is zero
RecoversLine(g, o) ==
    /\ HeatingPowerPerxxhGain = g
    /\ HeatingPowerPerxxhOffset = o
    /\ Correlation = FloatOf(1)
    /\ pc = "Clamp" => /\ IsFinite(HeatingLimit)
                       /\ Add(Mul(g, HeatingLimit), o) = Zero

ExampleSeries ==
    /\ OutdoorTempSamples = <<FloatOf(-5), FloatOf(0), FloatOf(5), FloatOf(10)>>
    /\ HeatingPowerSamples = <<FloatOf(3), FloatOf(2), FloatOf(1), FloatOf(0)>>

ExampleResult ==
    /\ HeatingPowerPerxxhGain = Rat(-1, 5)
    /\ HeatingPowerPerxxhOffset = FloatOf(2)
    /\ Correlation = FloatOf(1)
    /\ pc = "Clamp" => HeatingLimit = FloatOf(10)

\* C9: a fit attempted on fewer than 2 samples fails with InsufficientDataError
\* and leaves gain, offset and correlation without a value.
C9_InsufficientDataSignalled ==
    (FitAttempted /\ Len(OutdoorTempSamples) < 2)
        => /\ error = "InsufficientDataError"
           /\ FitValues = <<Unset, Unset, Unset>>

\* on fewer than 2 samples the fit does fail and produces no value, under
\* whatever exception curve_fit raises
FewSamplesProduceNoValue ==
    (FitAttempted /\ Len(OutdoorTempSamples) < 2)
        => /\ pc = "error"
           /\ error \in {"ValueError", "TypeError"}
           /\ FitValues = <<Unset, Unset, Unset>>

\* C10 as stated: whenever two or more sample days with at least two distinct
\* temperatures lie exactly on a line power = g*temperature + o, the fit
\* returns gain g, offset o and correlation 1.0, and the heating limit is -o/g.
C10_ExactLineRecoveredAnyGain ==
    FitReturned =>
        \A i, j \in 1..Len(OutdoorTempSamples) :
            (i < j /\ OutdoorTempSamples[i] # OutdoorTempSamples[j])
                => LET g == LineGain(i, j)
                       o == Sub(HeatingPowerSamples[i], Mul(g, OutdoorTempSamples[i]))
                   IN  OnLine(g, o) => RecoversLine(g, o)

\* C10: whenever two or more sample days with at least two distinct
\* temperatures lie exactly on a line power = g*temperature + o with g not
\* zero, the fit returns gain g, offset o and correlation 1.0, and the heating
\* limit is -o/g; temperatures [-5, 0, 5, 10] with powers [3, 2, 1, 0] give
\* gain -0.2, offset 2.0, correlation 1.0 and heating limit 10.
C10_ExactLineRecovered ==
    FitReturned =>
        /\ \A i, j \in 1..Len(OutdoorTempSamples) :
                (i < j /\ OutdoorTempSamples[i] # OutdoorTempSamples[j])
                    => LET g == LineGain(i, j)
                           o == Sub(HeatingPowerSamples[i], Mul(g, OutdoorTempSamples[i]))
                       IN  (g # Zero /\ OnLine(g, o)) => RecoversLine(g, o)
        /\ ExampleSeries => ExampleResult

\* C10 witness: the heating limit of the example series has been computed
C10_Witness ==
    /\ pc = "Clamp"
    /\ ExampleSeries
    /\ ExampleResult

\* a rising exact line is recovered as well
C10_RisingLineReached ==
    /\ pc = "Clamp"
    /\ Len(OutdoorTempSamples) >= 3
    /\ HeatingPowerPerxxhGain = Rat(1, 5)
    /\ OnLine(HeatingPowerPerxxhGain, HeatingPowerPerxxhOffset)

----------------------------------------------------------------------------
(* Vocabulary of the days-lookup properties *)

\* the sum of the day counts of bins lo..hi
RECURSIVE DaysOfBins(_, _)
DaysOfBins(lo, hi) ==
    IF lo > hi THEN Zero
    ELSE IF lo = hi THEN DaysPerYearAverageTemperature[lo]
    ELSE LET mid == (lo + hi) \div 2
         IN  Add(DaysOfBins(lo, mid), DaysOfBins(mid + 1, hi))

\* cum(b): the running sum of day counts up to and including bin number i
CumulativeDays(i) == DaysOfBins(1, i)

LowestBin == EnergyTemperatureList[1]

HighestBin == EnergyTemperatureList[TableLength]

\* C14: a query below the lowest bin returns 0 and a query above the highest bin
\* returns the sum of all bins.
C14_OutOfRangeClamped ==
    \A k \in 1..Len(DaysCalls) :
        /\ Less(DaysCalls[k].Temperature, LowestBin) => DaysCalls[k].DaysPerYear = Zero
        /\ Less(HighestBin, DaysCalls[k].Temperature)
                => DaysCalls[k].DaysPerYear = CumulativeDays(TableLength)

\* below the lowest bin the lookup does return 0
BelowTableIsZero ==
    \A k \in 1..Len(DaysCalls) :
        Less(DaysCalls[k].Temperature, LowestBin) => DaysCalls[k].DaysPerYear = Zero

\* C15: for every query temperature the result lies in [0, 365.25].
C15_ResultInRange ==
    \A k \in 1..Len(DaysCalls) :
        /\ LessEq(Zero, DaysCalls[k].DaysPerYear)
        /\ LessEq(DaysCalls[k].DaysPerYear, Rat(36525, 100))

\* C16: for a query equal to a table bin the result is exactly the running sum of the
\* day counts of all bins at or below it, the lowest and the highest bin included.
C16_ExactAtBin ==
    \A k \in 1..Len(DaysCalls) : \A i \in 1..TableLength :
        DaysCalls[k].Temperature = EnergyTemperatureList[i]
            => DaysCalls[k].DaysPerYear = CumulativeDays(i)

\* C16 witness: the lookup has been called on the highest bin and on a bin with a
\* non-zero day count below it.
C16_Witness ==
    /\ Len(DaysCalls) = 2
    /\ DaysCalls[1].Temperature = HighestBin
    /\ DaysCalls[2].Temperature = FloatOf(10)
    /\ Less(Zero, DaysCalls[2].DaysPerYear)
    /\ Less(DaysCalls[2].DaysPerYear, DaysCalls[1].DaysPerYear)

\* C17: the lookup is monotonically non-decreasing: for T1 <= T2 the result for T1 is
\* not greater than the result for T2.
C17_Monotone ==
    \A j, k \in 1..Len(DaysCalls) :
        LessEq(DaysCalls[j].Temperature, DaysCalls[k].Temperature)
            => LessEq(DaysCalls[j].DaysPerYear, DaysCalls[k].DaysPerYear)

\* up to the highest bin the lookup is monotone
MonotoneWithinTable ==
    \A j, k \in 1..Len(DaysCalls) :
        (LessEq(DaysCalls[j].Temperature, DaysCalls[k].Temperature)
            /\ LessEq(DaysCalls[k].Temperature, HighestBin))
                => LessEq(DaysCalls[j].DaysPerYear, DaysCalls[k].DaysPerYear)

\* C18: for a query T strictly between adjacent bins lo < T < hi the result is
\* cum(lo) + ((T - lo)/(hi - lo)) * (cum(hi) - cum(lo)).
C18_LinearBetweenBins ==
    \A k \in 1..Len(DaysCalls) : \A i \in 1..(TableLength - 1) :
        LET T == DaysCalls[k].Temperature
            lo == EnergyTemperatureList[i]
            hi == EnergyTemperatureList[i + 1]
        IN  (Less(lo, T) /\ Less(T, hi))
                => DaysCalls[k].DaysPerYear
                     = Add(CumulativeDays(i),
                           Mul(Div(Sub(T, lo), Sub(hi, lo)),
                               Sub(CumulativeDays(i + 1), CumulativeDays(i))))

\* C18 witness: the lookup has been called a quarter degree above the -7.5 bin, where
\* both neighbours differ, and the result lies strictly between their running sums.
C18_Witness ==
    \E k \in 1..Len(DaysCalls) :
        /\ DaysCalls[k].Temperature = Rat(-29, 4)
        /\ Less(CumulativeDays(46), DaysCalls[k].DaysPerYear)
        /\ Less(DaysCalls[k].DaysPerYear, CumulativeDays(47))

----------------------------------------------------------------------------
(* Vocabulary of the properties of the statements after the fit *)

\* positions after the heating limit has been computed at line 631
PastHeatingLimit == {"Clamp", "Alternative", "Decomposition", "Plot", "done"}

\* C11: when the fitted gain is zero the computation of the heating limit ends in an
\* error or sentinel; the run never goes on to the clamp, the days lookup or the
\* projection with an infinite or NaN heating limit.
C11_ZeroGainSignalled ==
    pc \in PastHeatingLimit => IsFinite(HeatingLimit)

\* a fit with a gain other than zero has a finite heating limit
NonZeroGainFiniteLimit ==
    (pc \in PastHeatingLimit /\ HeatingPowerPerxxhGain # Zero) => IsFinite(HeatingLimit)

\* C12: the clamp makes a temperature of interest above the heating limit exactly the
\* heating limit and leaves any other unchanged, so that afterwards
\* OutsideTemperatureOfInterest <= HeatingLimit.
C12_ClampToHeatingLimit ==
    [][pc = "Clamp"
         => /\ OutsideTemperatureOfInterest' =
                    IF Less(HeatingLimit, OutsideTemperatureOfInterest)
                    THEN HeatingLimit
                    ELSE OutsideTemperatureOfInterest
            /\ LessEq(OutsideTemperatureOfInterest', HeatingLimit)]_vars

\* a temperature of interest not above the heating limit is left unchanged
ClampLeavesLowerUnchanged ==
    [][(pc = "Clamp" /\ ~Less(HeatingLimit, OutsideTemperatureOfInterest))
         => OutsideTemperatureOfInterest' = OutsideTemperatureOfInterest]_vars

\* C13: after the clamp the heating power at the temperature of interest,
\* gain*T* + offset, is never negative.
C13_PowerOfInterestNotNegative ==
    HeatingPowerTemperatureOffInterest # Unset
        => LessEq(Zero, HeatingPowerTemperatureOffInterest)

\* C19: powerAtIndoorTemp = gain*avgIndoorTemp + offset, internalPower =
\* -(avgElectricity/HoursForHeatingADay) - HeatFromWarmBodies/HoursForHeatingADay and
\* externalPower = powerAtIndoorTemp - internalPower; internalPower + externalPower =
\* powerAtIndoorTemp, and internalPower <= 0 when the average electricity is not
\* negative.
C19_GainDecomposition ==
    AverageInternalPower # Unset =>
        LET avgIndoorTemp == Mean(IndoorTempSamples)
            avgElectricity == Mean(ElectricitySamples)
            Hours == FloatOf(HoursForHeatingADay)
        IN  /\ PowerPointAtIndoorTemperature =
                    Add(Mul(HeatingPowerPerxxhGain, avgIndoorTemp), HeatingPowerPerxxhOffset)
            /\ AverageInternalPower =
                    Sub(Neg(Div(avgElectricity, Hours)), Div(HeatFromWarmBodies, Hours))
            /\ AverageExternalPower =
                    Sub(PowerPointAtIndoorTemperature, AverageInternalPower)
            /\ Add(AverageInternalPower, AverageExternalPower) =
                    PowerPointAtIndoorTemperature
            /\ LessEq(Zero, avgElectricity) => LessEq(AverageInternalPower, Zero)

\* C19 witness: the decomposition has run on days with a positive average
\* electricity use, and gave a negative internal and another external power.
C19_Witness ==
    /\ AverageInternalPower # Unset
    /\ Less(Zero, Mean(ElectricitySamples))
    /\ Less(AverageInternalPower, Zero)
    /\ AverageExternalPower # PowerPointAtIndoorTemperature
    /\ HeatingPowerPerxxhGain # Zero

\* with net delivery of electricity the internal power is positive
NetDeliveryGivesPositiveInternalPower ==
    (AverageInternalPower # Unset /\ Mean(ElectricitySamples) = FloatOf(-100))
        => Less(Zero, AverageInternalPower)

\* PlotData was reached and raised
PlotDataRaised ==
    /\ pc = "error"
    /\ DaysAlternativePower # Unset
    /\ EstimateAdditionalInternalAndExternalEnergy => AverageInternalPower # Unset

\* C20: every bin strictly below the heating limit contributes
\* (gain*bin + offset) * daysOfBin * HoursForHeatingADay, every other bin 0, and the
\* reported yearly total is the sum of the contributions.
C20_YearlyTotalIsSumOfBins ==
    /\ ~PlotDataRaised
    /\ pc = "done" => EnergyOfBins(1, TableLength) = [whole |-> TotalEnergy, part |-> Zero]

\* a reported total is the sum of the contributions without its fraction
ReportedTotalIsWholePartOfSum ==
    pc = "done" => /\ TotalEnergy = EnergyOfBins(1, TableLength).whole
                   /\ TotalEnergy >= 0

\* a total is reported exactly when some bin contributes a positive energy
TotalReportedIffPositiveBin ==
    (pc = "done" \/ PlotDataRaised)
        => (pc = "done" <=> \E i \in 1..TableLength : Less(Zero, EnergyOfBin(i)))

\* PlotData was reached, and returned or raised
PlotDataCalled == pc = "done" \/ PlotDataRaised

\* the sum over bins lo..hi of (gain*bin + offset) * daysOfBin * HoursForHeatingADay
RECURSIVE PowerOfEveryBin(_, _)
PowerOfEveryBin(lo, hi) ==
    IF lo = hi
    THEN Split(Mul(Mul(Add(Mul(HeatingPowerPerxxhGain, EnergyTemperatureList[lo]),
                           HeatingPowerPerxxhOffset),
                       DaysPerYearAverageTemperature[lo]),
                   FloatOf(HoursForHeatingADay)))
    ELSE LET mid == (lo + hi) \div 2
         IN  SplitPlus(PowerOfEveryBin(lo, mid), PowerOfEveryBin(mid + 1, hi))

\* C21: with a heating limit above every table bin the projection sums the power of
\* every bin; with a heating limit below every table bin the projection completes
\* and yields a yearly total of 0.
C21_ProjectionAtExtremes ==
    PlotDataCalled =>
        /\ Less(HighestBin, HeatingLimit)
                => /\ pc = "done"
                   /\ TotalEnergy = IntOf(PowerOfEveryBin(1, TableLength))
        /\ Less(HeatingLimit, LowestBin)
                => /\ pc = "done"
                   /\ TotalEnergy = 0

\* with a falling line and a heating limit above every bin the total is the whole
\* part of the sum over every bin
FallingLineAboveTableSumsEveryBin ==
    (PlotDataCalled /\ Less(HighestBin, HeatingLimit) /\ Less(HeatingPowerPerxxhGain, Zero))
        => /\ pc = "done"
           /\ TotalEnergy = IntOf(PowerOfEveryBin(1, TableLength))

\* with a heating limit below every bin PlotEnergyDistribution raises ZeroDivisionError
BelowTableRaises ==
    (PlotDataCalled /\ Less(HeatingLimit, LowestBin))
        => pc = "error" /\ error = "ZeroDivisionError"

\* the alternative-energy statements, lines 638-643, have run
AlternativeComputed == AlternativeEnergy # Unset

\* C22 as stated: daysAlternative is the days lookup at the clamped T*,
\* alternativePower = powerAt(-15) - powerAt(T*), alternativeEnergy =
\* alternativePower * daysAlternative * HoursForHeatingADay * 0.5 and
\* alternativeCost = alternativeEnergy * CostPerkWh.
C22_AlternativeEnergyUnrounded ==
    AlternativeComputed =>
        LET T == OutsideTemperatureOfInterest
            powerAtMinus15 ==
                Add(Mul(HeatingPowerPerxxhGain, FloatOf(-15)), HeatingPowerPerxxhOffset)
            powerAtT == Add(Mul(HeatingPowerPerxxhGain, T), HeatingPowerPerxxhOffset)
        IN  /\ DaysCalls[Len(DaysCalls)].Temperature = T
            /\ DaysAlternativePower = CalculateDaysPerYearBelowTemperature(T)
            /\ HeatingPowerTemperatureOffInterest = powerAtT
            /\ AlternativePower = Sub(powerAtMinus15, powerAtT)
            /\ AlternativeEnergy =
                    Mul(Mul(Mul(AlternativePower, DaysAlternativePower),
                            FloatOf(HoursForHeatingADay)),
                        Rat(1, 2))
            /\ AlternativeEnergyCost = Mul(AlternativeEnergy, CostPerkWh)

\* C22: with T* the temperature of interest after the clamp, the days lookup and
\* powerAt(T*) are taken at T*; daysAlternative is the lookup rounded to one decimal,
\* alternativePower is powerAt(-15) - powerAt(T*) rounded to two decimals,
\* alternativeEnergy is (powerAt(-15) - powerAt(T*)) * daysAlternative *
\* HoursForHeatingADay * 0.5 rounded to two decimals, and alternativeCost is
\* CostPerkWh * alternativeEnergy rounded to two decimals.
C22_AlternativeEnergy ==
    AlternativeComputed =>
        LET T == OutsideTemperatureOfInterest
            powerAtMinus15 ==
                Add(Mul(HeatingPowerPerxxhGain, FloatOf(-15)), HeatingPowerPerxxhOffset)
            powerAtT == Add(Mul(HeatingPowerPerxxhGain, T), HeatingPowerPerxxhOffset)
        IN  /\ DaysCalls[Len(DaysCalls)].Temperature = T
            /\ DaysAlternativePower = Round(CalculateDaysPerYearBelowTemperature(T), 1)
            /\ HeatingPowerTemperatureOffInterest = powerAtT
            /\ AlternativePower = Round(Sub(powerAtMinus15, powerAtT), 2)
            /\ AlternativeEnergy =
                    Round(Mul(Mul(Mul(Sub(powerAtMinus15, powerAtT), DaysAlternativePower),
                                  FloatOf(HoursForHeatingADay)),
                              Rat(1, 2)),
                          2)
            /\ AlternativeEnergyCost = Round(Mul(CostPerkWh, AlternativeEnergy), 2)

\* C22 witness: the clamp has moved the temperature of interest off its configured
\* value, and the alternative energy computed at it is finite and positive.
C22_Witness ==
    /\ AlternativeComputed
    /\ OutsideTemperatureOfInterest \notin TemperaturesOfInterest
    /\ IsFinite(OutsideTemperatureOfInterest)
    /\ Less(Zero, DaysAlternativePower)
    /\ Less(Zero, AlternativeEnergy)
    /\ Less(Zero, AlternativeEnergyCost)

----------------------------------------------------------------------------
(* Further properties of the aggregator *)

\* field f has no observation on the k-th walked day or on any day walked before it
UnobservedThrough(f, k) ==
    \A j \in 1..k : Measurements[j].d \notin DatesOf(f)

\* C23: a field that has not been observed on the current day or on any earlier
\* walked day takes the value 0 in the aligned series, for each field independently.
C23_UnobservedFieldIsZero ==
    Aligned =>
        \A f \in Fields : \A k \in 1..Len(Measurements) :
            UnobservedThrough(f, k) => FieldSamples(f)[k] = Zero

\* C23 witness: on a walked day one field is still unobserved while another has a
\* non-zero value, and the unobserved field gets a non-zero value on a later day.
C23_Witness ==
    /\ Aligned
    /\ \E f, g \in Fields : \E k \in 1..Len(Measurements) :
            /\ UnobservedThrough(f, k)
            /\ FieldSamples(g)[k] # Zero
            /\ k < Len(Measurements)
            /\ FieldSamples(f)[Len(Measurements)] # Zero

----------------------------------------------------------------------------
(* The degree-day table as data of the run *)

\* C24: the degree-day table is read-only: no operation of a run (days lookup, energy
\* projection, plotting) changes an entry or the length of EnergyTemperatureList or
\* DaysPerYearAverageTemperature, and both lists keep equal length.
C24_TableReadOnly ==
    /\ EnergyTemperatureList = EnergyTemperatureListAsWritten
    /\ DaysPerYearAverageTemperature = DaysPerYearAverageTemperatureAsWritten
    /\ Len(EnergyTemperatureList) = Len(DaysPerYearAverageTemperature)

\* C24 witness: a run has made its days lookup and its projection, and the plot has
\* returned a yearly total.
C24_Witness ==
    /\ pc = "done"
    /\ DaysCalls # <<>>
    /\ DaysCalls[1].DaysPerYear # Zero
    /\ TotalEnergy > 0

----------------------------------------------------------------------------
(* Heating-energy records in direct mode *)

\* C25: every heating-energy record that passes the filter of GetHeatingEnergy has
\* both a v_max and a v_min value, so the direct-mode merge in CreateDictionaryOfData
\* never fails on a missing key; a record with only one of them is dropped.
C25_HeatingRecordsComplete ==
    ~UseGasDataForHeatingEnergyEstimation =>
        /\ \A i \in 1..Len(HeatingEnergyData) :
                {"v_max", "v_min"} \subseteq DOMAIN HeatingEnergyData[i]
        /\ error # "KeyError"

\* a record without v_min is dropped by the filter
RecordWithoutVMinDropped ==
    ~UseGasDataForHeatingEnergyEstimation =>
        \A i \in 1..Len(HeatingEnergyData) : "v_min" \in DOMAIN HeatingEnergyData[i]

\* the merge raises KeyError exactly when a record without v_max has passed the filter
KeyErrorIffRecordWithoutVMax ==
    (~UseGasDataForHeatingEnergyEstimation
        /\ pc \in {"GetDataListsFromDictionary", "Fit", "error"})
        => (error = "KeyError"
                <=> \E i \in 1..Len(HeatingEnergyData) :
                        "v_max" \notin DOMAIN HeatingEnergyData[i])

----------------------------------------------------------------------------
(* The gain decomposition at the end of a run *)

\* positions after FitHeatingAndTemperatureData has returned
PastFit == {"HeatingLimit"} \cup PastHeatingLimit

\* the statements of lines 646-653 were reached and raised
DecompositionRaised ==
    /\ pc = "error"
    /\ DaysAlternativePower # Unset
    /\ EstimateAdditionalInternalAndExternalEnergy
    /\ AverageInternalPower = Unset

\* C26: whenever the fit succeeds and EstimateAdditionalInternalAndExternalEnergy is
\* set, the indoor-temperature and electricity sample lists are non-empty and the gain
\* decomposition completes without a division by a zero length.
C26_DecompositionCompletes ==
    EstimateAdditionalInternalAndExternalEnergy =>
        /\ pc \in PastFit => (IndoorTempSamples # <<>> /\ ElectricitySamples # <<>>)
        /\ ~DecompositionRaised

\* the decomposition raises exactly on empty indoor lists
DecompositionRaisedIffEmpty ==
    DecompositionRaised <=>
        /\ pc = "error"
        /\ error = "ZeroDivisionError"
        /\ DaysAlternativePower # Unset
        /\ EstimateAdditionalInternalAndExternalEnergy
        /\ IndoorTempSamples = <<>>

\* the sensor path: a fit is not attempted on fewer indoor than outdoor samples
SensorPathIndoorAsLongAsOutdoor ==
    Aligned => /\ Len(IndoorTempSamples) = Len(OutdoorTempSamples)
               /\ Len(ElectricitySamples) = Len(OutdoorTempSamples)

----------------------------------------------------------------------------
(* The sign of the reported correlation *)

\* |x|
AbsOf(x) == [num |-> Abs(x.num), den |-> x.den]

\* C27: the reported correlation is never negative; for every series with a non-zero
\* fitted gain it equals the absolute value of the Pearson correlation of temperature
\* and power (at the three decimals it is reported with), also when the gain is
\* negative.
C27_CorrelationNotNegative ==
    FitReturned =>
        /\ ~Less(Correlation, Zero)
        /\ HeatingPowerPerxxhGain # Zero
                => Correlation = AbsOf(CorrCoef(OutdoorTempSamples, HeatingPowerSamples))

\* C27 witness: a fit with negative gain on days that do not lie on a line has
\* returned, with a correlation strictly between 0 and 1.
C27_Witness ==
    /\ FitReturned
    /\ Less(HeatingPowerPerxxhGain, Zero)
    /\ Less(Zero, Correlation)
    /\ Less(Correlation, FloatOf(1))
    /\ Less(CorrCoef(OutdoorTempSamples, HeatingPowerSamples), Zero)

\* with all temperatures equal or all powers equal the correlation is nan
NoVarianceGivesNaN ==
    (FitReturned /\ (CrossSum(OutdoorTempSamples, OutdoorTempSamples) = Zero
                        \/ HeatingPowerPerxxhGain = Zero))
        => IsNaN(Correlation)

----------------------------------------------------------------------------
(* The sign of the alternative power and energy *)

\* C28: for every fit with negative gain and every configured temperature of
\* interest, AlternativePower and AlternativeEnergy are non-negative, also when the
\* clamp moves the temperature of interest below -15.
C28_AlternativeNotNegative ==
    (AlternativeComputed /\ Less(HeatingPowerPerxxhGain, Zero))
        => /\ LessEq(Zero, AlternativePower)
           /\ LessEq(Zero, AlternativeEnergy)

\* with a falling line and a temperature of interest of -15 or more both are
\* non-negative
AlternativeNotNegativeFromMinus15 ==
    (AlternativeComputed /\ Less(HeatingPowerPerxxhGain, Zero)
        /\ LessEq(FloatOf(-15), OutsideTemperatureOfInterest))
        => /\ LessEq(Zero, AlternativePower)
           /\ LessEq(Zero, AlternativeEnergy)

\* with a falling line and a temperature of interest below -15 the power is negative,
\* and the energy is 0 because the table has no days below -15
BelowMinus15PowerNegative ==
    (AlternativeComputed /\ Less(HeatingPowerPerxxhGain, Zero)
        /\ Less(OutsideTemperatureOfInterest, FloatOf(-15)))
        => /\ Less(AlternativePower, Zero)
           /\ AlternativeEnergy = Zero

----------------------------------------------------------------------------
(* A sensor whose URL fails *)

\* the key under which the merge files the observations of a sensor
FieldOfSensor(s) ==
    CASE s = "OutDoorTemperature" -> "OutdoorTemperature"
      [] s = "InDoorTemperature" -> "IndoorTemperature"
      [] s = "TotalElectric" -> "ElectricEnergy"
      [] s \in {"Gas", "HeatingEnergy"} -> "Energy"

\* the dates of the merged dictionary
MergedDates == {Measurements[i].d : i \in 1..Len(Measurements)}

\* the keys of the merged values
MergedKeys ==
    UNION {UNION {DOMAIN Measurements[i].ValueList[j] :
                     j \in 1..Len(Measurements[i].ValueList)} :
              i \in 1..Len(Measurements)}

\* the dates the server holds for the sensors that answer
AnsweredDates ==
    UNION {{Domoticz[s][i].d : i \in 1..Len(Domoticz[s])} : s \in SensorsRead \ Unreachable}

Merged == pc \in {"GetDataListsFromDictionary", "Fit"}

\* C29: when fetching a sensor source fails with an HTTP or URL error, its Get*
\* function returns an empty list and raises nothing; the run continues, and the
\* failed source contributes no dates and no values to the merged data.
C29_FailedSourceContributesNothing ==
    \A s \in Unreachable :
        /\ FieldData(FieldOfSensor(s)) = <<>>
        /\ error = "none" /\ pc # "error"
        /\ Merged => /\ FieldOfSensor(s) \notin MergedKeys
                     /\ MergedDates = AnsweredDates

\* C29 (witness): a run whose server holds observations of a sensor that fails has
\* merged the observations of another sensor and reached the fit.
C29_Witness ==
    /\ pc = "Fit"
    /\ Measurements # <<>>
    /\ \E s \in Unreachable : Domoticz[s] # <<>> /\ ~(AnsweredDates = {})
    /\ \E s \in Unreachable : \E i \in 1..Len(Domoticz[s]) : Domoticz[s][i].d \notin MergedDates

====
